---- MODULE Spec2Model ----
(***************************************************************************)
(* Verification model of the tatari-tv pre-commit hooks: the suppression   *)
(* registry (ignore_check), the tree scanners, the dependency constraint   *)
(* validators and the bucket scanner.  Source text is modelled at token    *)
(* level: a line is a sequence of tokens and "s in line" is containment of *)
(* a token.                                                                *)
(***************************************************************************)
EXTENDS Integers, Sequences, FiniteSets, TLC

\* ------------------------------------------------------------------------
\* Bounds
\* ------------------------------------------------------------------------
MaxLines == 3
MaxChecks == 3
MaxScanLines == 2
MaxRules == 2
MaxFiles == 2
MaxKeywords == 2
MaxDeps == 2
MaxBucketLines == 3
MaxStmts == 1
MaxMainFiles == 2
MaxImportStmts == 2
MaxSparkLines == 2
MaxBranchHead == 2
MaxImportNodes == 2

\* ------------------------------------------------------------------------
\* python_hooks/utills/ignore_check.py
\* ------------------------------------------------------------------------
VARIABLES file_lines, input_check_fails, check_fails, annotated, ic_pc,
          prev_annotated, marked_line

icVars == <<file_lines, input_check_fails, check_fails, annotated, ic_pc,
            prev_annotated, marked_line>>

\* printed holds the lines written to standard output by the latest step,
\* printed_count the number of lines written since the start of the run;
\* cur_file, annotated_check_accumulator and status are the file, the filtered
\* list and the return value of the check_identifiers call that just returned
VARIABLES args, main_pc, file_idx, cur_file, annotated_check_accumulator,
          status, printed, printed_count, results, return_code

scVars == <<args, main_pc, file_idx, cur_file, annotated_check_accumulator,
            status, printed, printed_count, results, return_code>>

\* image_tag_branch_constraint.check_file: the file, the list handed to
\* ignore_check, the list it returns, the lines printed, the return value
VARIABLES it_file, it_recorded, it_annotated, it_printed, it_status, it_pc

itVars == <<it_file, it_recorded, it_annotated, it_printed, it_status, it_pc>>

\* validate_constraints of the four constraint validators: which validator
\* runs, the loaded manifest, the ignore list, the position in the loop over
\* the dependencies, exit_status, the lines printed and the value returned;
\* cur_dep holds the loop variables dep_name and constraint
VARIABLES validator, pyproject, ignore, cv_pc, dep_idx, exit_status, cv_out, cv_ret,
          cur_dep

cvVars == <<validator, pyproject, ignore, cv_pc, dep_idx, exit_status, cv_out, cv_ret,
            cur_dep>>

\* no_hardcoded_buckets.check_file: the file, the check_regions argument, the
\* position in the loop of find_bucket_violations with its in_docstring flag,
\* the violations list, the list returned and the lines written to stderr
VARIABLES bk_file, check_regions, bk_pc, line_num, in_docstring, violations,
          unique_violations, bk_stderr

bkVars == <<bk_file, check_regions, bk_pc, line_num, in_docstring, violations,
            unique_violations, bk_stderr>>

\* no_hardcoded_buckets.main: the command line, the position in the loop over
\* args.files, the violations gathered, the lines written to stderr and how
\* the call ended (the value returned, or the exit code of SystemExit)
VARIABLES argv, bm_pc, bm_idx, all_violations, bm_stderr, bm_ret, bm_exit

bmVars == <<argv, bm_pc, bm_idx, all_violations, bm_stderr, bm_ret, bm_exit>>

\* no_boto3_in_airflow_dags.main: the file names given, the position in the
\* loop over them, the violations gathered, what was printed and the status
VARIABLES b3_filenames, b3_pc, b3_idx, b3_all_violations, b3_stderr, b3_ret

b3Vars == <<b3_filenames, b3_pc, b3_idx, b3_all_violations, b3_stderr, b3_ret>>

\* no_non_spark_buckets_in_spark_projects.check_file: the file, the
\* directories above it with their pyproject.toml, the manifest found, the
\* position in the loop over the lines, the violations and the list returned
VARIABLES ns_file, ns_dirs, ns_pc, ns_pyproject, ns_line_num, ns_violations, ns_ret

nsVars == <<ns_file, ns_dirs, ns_pc, ns_pyproject, ns_line_num, ns_violations, ns_ret>>

\* validate_branch_name: the branch name, what was printed and the status
VARIABLES branch, br_pc, br_printed, br_ret

brVars == <<branch, br_pc, br_printed, br_ret>>

\* forbidden_imports.check_imports: the file, the forbidden names, the
\* position in the loop over tree.body, what was printed, the status
\* returned and the exception raised
VARIABLES fi_file, forbidden_classes, fi_pc, fi_idx, fi_printed, fi_ret, fi_raised

fiVars == <<fi_file, forbidden_classes, fi_pc, fi_idx, fi_printed, fi_ret, fi_raised>>

\* the variables of the other hooks, which a hook's run leaves alone
icOthers == <<scVars, itVars, cvVars, bkVars, bmVars, b3Vars, nsVars, brVars, fiVars>>
scOthers == <<icVars, itVars, cvVars, bkVars, bmVars, b3Vars, nsVars, brVars, fiVars>>
itOthers == <<icVars, scVars, cvVars, bkVars, bmVars, b3Vars, nsVars, brVars, fiVars>>
cvOthers == <<icVars, scVars, itVars, bkVars, bmVars, b3Vars, nsVars, brVars, fiVars>>
bkOthers == <<icVars, scVars, itVars, cvVars, bmVars, b3Vars, nsVars, brVars, fiVars>>
bmOthers == <<icVars, scVars, itVars, cvVars, bkVars, b3Vars, nsVars, brVars, fiVars>>
b3Others == <<icVars, scVars, itVars, cvVars, bkVars, bmVars, nsVars, brVars, fiVars>>
nsOthers == <<icVars, scVars, itVars, cvVars, bkVars, bmVars, b3Vars, brVars, fiVars>>
brOthers == <<icVars, scVars, itVars, cvVars, bkVars, bmVars, b3Vars, nsVars, fiVars>>
fiOthers == <<icVars, scVars, itVars, cvVars, bkVars, bmVars, b3Vars, nsVars, brVars>>

NOQA == "tatari-noqa"

\* `s in line`: the line holds the token s
Contains(line, s) == \E j \in 1..Len(line) : line[j] = s

\* IdentifierCheck dataclass: equality is field-wise
IdentifierCheck(name, replacement, line, col_offset) ==
    [name |-> name, replacement |-> replacement, line |-> line, col_offset |-> col_offset]

\* list.remove(x): drops the first element equal to x
RECURSIVE ListRemove(_, _)
ListRemove(lst, x) ==
    IF lst = <<>> THEN <<>>
    ELSE IF Head(lst) = x THEN Tail(lst)
    ELSE <<Head(lst)>> \o ListRemove(Tail(lst), x)

\* a plausible slip: iterate the list being mutated, so only the first record
\* of a marked line is removed
RECURSIVE RemoveChecksOfLineFirstOnly(_, _, _)
RemoveChecksOfLineFirstOnly(snapshot, fails, line) ==
    IF snapshot = <<>> THEN fails
    ELSE IF Contains(line, NOQA) THEN ListRemove(fails, Head(snapshot))
    ELSE fails

\* inner loop of ignore_check over the snapshot of the line's records
RECURSIVE RemoveChecksOfLine(_, _, _)
RemoveChecksOfLine(snapshot, fails, line) ==
    IF snapshot = <<>> THEN fails
    ELSE RemoveChecksOfLine(Tail(snapshot),
                            IF Contains(line, NOQA) THEN ListRemove(fails, Head(snapshot)) ELSE fails,
                            line)

\* a plausible slip: the 0-based index i is compared instead of i + 1
RECURSIVE LineLoopOffByOne(_, _, _, _)
LineLoopOffByOne(lines, i, failing_lines, fails) ==
    IF i >= Len(lines) THEN fails
    ELSE LineLoopOffByOne(lines, i + 1, failing_lines,
             IF i \in failing_lines
             THEN RemoveChecksOfLine(SelectSeq(fails, LAMBDA c : c.line = i), fails, lines[i + 1])
             ELSE fails)

\* outer loop of ignore_check: enumerate(file), i is 0-based
RECURSIVE LineLoop(_, _, _, _)
LineLoop(lines, i, failing_lines, fails) ==
    IF i >= Len(lines) THEN fails
    ELSE LineLoop(lines, i + 1, failing_lines,
             IF (i + 1) \in failing_lines
             THEN RemoveChecksOfLine(SelectSeq(fails, LAMBDA c : c.line = i + 1), fails, lines[i + 1])
             ELSE fails)

ignore_check(lines, fails) ==
    LineLoop(lines, 0, {fails[k].line : k \in DOMAIN fails}, fails)

\* --- inputs of the ignore_check harness ---
SampleLines == { <<"code">>, <<"code", "#", "tatari-noqa">>, <<"code", "#", "noqa">> }
SampleFiles == UNION { [1..n -> SampleLines] : n \in 1..MaxLines }
SampleChecks == { IdentifierCheck("split", "splitlines", l, c) : l \in 1..MaxLines, c \in {0, 4} }
SampleCheckLists == UNION { [1..n -> SampleChecks] : n \in 0..MaxChecks }

IcInit ==
    /\ file_lines \in SampleFiles
    /\ input_check_fails \in SampleCheckLists
    /\ check_fails = input_check_fails
    /\ annotated = <<>>
    /\ ic_pc = "ready"
    /\ prev_annotated = <<>>
    /\ marked_line = 0

IcIdle ==
    /\ file_lines = <<>>
    /\ input_check_fails = <<>>
    /\ check_fails = <<>>
    /\ annotated = <<>>
    /\ ic_pc = "idle"
    /\ prev_annotated = <<>>
    /\ marked_line = 0

\* a caller invokes ignore_check(filename, check_fails): the list object is
\* mutated in place and the same object is returned
IgnoreCheckCall ==
    /\ ic_pc = "ready"
    /\ check_fails' = ignore_check(file_lines, check_fails)
    /\ annotated' = check_fails'
    /\ ic_pc' = "checked"
    /\ UNCHANGED <<file_lines, input_check_fails, prev_annotated, marked_line>>
    /\ UNCHANGED icOthers

\* the author appends the marker to line k and the same violations are
\* checked again against the edited file
AddMarkerAndRecheck(k) ==
    /\ ic_pc = "checked"
    /\ k \in 1..Len(file_lines)
    /\ ~Contains(file_lines[k], NOQA)
    /\ file_lines' = [file_lines EXCEPT ![k] = @ \o <<"#", NOQA>>]
    /\ prev_annotated' = annotated
    /\ check_fails' = ignore_check(file_lines', input_check_fails)
    /\ annotated' = check_fails'
    /\ marked_line' = k
    /\ ic_pc' = "rechecked"
    /\ UNCHANGED input_check_fails
    /\ UNCHANGED icOthers

IcNext ==
    \/ IgnoreCheckCall
    \/ \E k \in 1..MaxLines : AddMarkerAndRecheck(k)

\* ------------------------------------------------------------------------
\* python_hooks/disallowed_identifiers.py (check_function_call and
\* check_attributes are its function and attribute modes)
\* ------------------------------------------------------------------------

\* --- source files: one statement per line, optionally followed by a comment
StmtShapes == {"attr_call", "name_call", "attr", "chain_call"}
StmtNames == {"split"}
RuleNames == {"split", "strip"}
SampleStmts == [shape : StmtShapes, name : StmtNames]
SampleSourceLines == [stmt : SampleStmts, comment : {"", NOQA}]
SampleSources == UNION { [1..n -> SampleSourceLines] : n \in 1..MaxScanLines }
NoFile == <<>>

\* the text of a source line, as the tokens ignore_check reads
LineText(ln) ==
    (CASE ln.stmt.shape = "attr_call" -> <<"obj", ".", ln.stmt.name, "(", ")">>
       [] ln.stmt.shape = "name_call" -> <<ln.stmt.name, "(", ")">>
       [] ln.stmt.shape = "attr" -> <<"x", "=", "obj", ".", ln.stmt.name>>
       [] ln.stmt.shape = "chain_call" ->
              <<"obj", ".", ln.stmt.name, "(", ")", ".", ln.stmt.name, "(", ")">>
       [] OTHER -> <<>>)
    \o (IF ln.comment = "" THEN <<>> ELSE <<"#", ln.comment>>)

FileText(f) == [l \in 1..Len(f) |-> LineText(f[l])]

\* --- ast.parse / ast.walk: the nodes of a statement at each depth below it
Node(type, func_type, name, lineno) ==
    [type |-> type, func_type |-> func_type, name |-> name, lineno |-> lineno, col_offset |-> 0]

MaxDepth == 5

NodesAtDepth(stmt, lineno, d) ==
    CASE stmt.shape = "attr_call" ->
            (CASE d = 1 -> <<Node("Call", "Attribute", stmt.name, lineno)>>
               [] d = 2 -> <<Node("Attribute", "", stmt.name, lineno)>>
               [] d = 3 -> <<Node("Name", "", "obj", lineno)>>
               [] OTHER -> <<>>)
      [] stmt.shape = "name_call" ->
            (CASE d = 1 -> <<Node("Call", "Name", stmt.name, lineno)>>
               [] d = 2 -> <<Node("Name", "", stmt.name, lineno)>>
               [] OTHER -> <<>>)
      [] stmt.shape = "attr" ->
            (CASE d = 1 -> <<Node("Attribute", "", stmt.name, lineno)>>
               [] d = 2 -> <<Node("Name", "", "obj", lineno)>>
               [] OTHER -> <<>>)
      [] stmt.shape = "chain_call" ->
            (CASE d = 1 -> <<Node("Call", "Attribute", stmt.name, lineno)>>
               [] d = 2 -> <<Node("Attribute", "", stmt.name, lineno)>>
               [] d = 3 -> <<Node("Call", "Attribute", stmt.name, lineno)>>
               [] d = 4 -> <<Node("Attribute", "", stmt.name, lineno)>>
               [] d = 5 -> <<Node("Name", "", "obj", lineno)>>
               [] OTHER -> <<>>)
      [] OTHER -> <<>>

RECURSIVE LevelNodes(_, _, _)
LevelNodes(f, l, d) ==
    IF l > Len(f) THEN <<>>
    ELSE NodesAtDepth(f[l].stmt, l, d) \o LevelNodes(f, l + 1, d)

\* ast.walk is breadth first: every statement's nodes of one depth come
\* before any node of the next depth
RECURSIVE AstWalk(_, _)
AstWalk(f, d) ==
    IF d > MaxDepth THEN <<>> ELSE LevelNodes(f, 1, d) \o AstWalk(f, d + 1)

\* a plausible slip: the index of the last equal entry
RECURSIVE ListIndexLast(_, _)
ListIndexLast(lst, x) ==
    IF lst[Len(lst)] = x THEN Len(lst) - 1
    ELSE ListIndexLast(SubSeq(lst, 1, Len(lst) - 1), x)

\* list.index(x): 0-based index of the first entry equal to x (x is in lst)
RECURSIVE ListIndex(_, _)
ListIndex(lst, x) ==
    IF Head(lst) = x THEN 0 ELSE 1 + ListIndex(Tail(lst), x)

InList(x, lst) == \E k \in 1..Len(lst) : lst[k] = x

\* is the node one that check_identifiers flags in this mode
Flags(node, identifier, disallowed) ==
    \/ /\ identifier = "function"
       /\ node.type = "Call"
       /\ node.func_type = "Attribute"
       /\ InList(node.name, disallowed)
    \/ /\ identifier = "attribute"
       /\ node.type = "Attribute"
       /\ InList(node.name, disallowed)

\* the loop of check_identifiers over ast.walk(tree); replacements[index]
\* raises IndexError when the replacements list is too short
RECURSIVE Accumulate(_, _, _, _, _)
Accumulate(nodes, identifier, disallowed, replacements, acc) ==
    IF nodes = <<>> THEN [raised |-> "", acc |-> acc]
    ELSE LET node == Head(nodes) IN
         IF Flags(node, identifier, disallowed)
         THEN LET index == ListIndex(disallowed, node.name) IN
              IF index + 1 > Len(replacements)
              THEN [raised |-> "IndexError", acc |-> acc]
              ELSE Accumulate(Tail(nodes), identifier, disallowed, replacements,
                       Append(acc, IdentifierCheck(node.name, replacements[index + 1],
                                                   node.lineno, node.col_offset)))
         ELSE Accumulate(Tail(nodes), identifier, disallowed, replacements, acc)

\* DISALLOWED_MESSAGE.format(...)
DisallowedMessage(identifier, check, filename) ==
    [text |-> "Flagged", identifier |-> identifier, name |-> check.name, filename |-> filename,
     line |-> check.line, col_offset |-> check.col_offset, replacement |-> check.replacement]

\* check_identifiers(filename, identifier, disallowed, replacements)
check_identifiers(f, filename, identifier, disallowed, replacements) ==
    LET scan == Accumulate(AstWalk(f, 1), identifier, disallowed, replacements, <<>>) IN
    IF scan.raised # ""
    THEN [raised |-> scan.raised, annotated |-> <<>>, out |-> <<>>, rc |-> 0]
    ELSE LET ann == ignore_check(FileText(f), scan.acc) IN
         [raised |-> "",
          annotated |-> ann,
          out |-> [k \in 1..Len(ann) |-> DisallowedMessage(identifier, ann[k], filename)],
          rc |-> IF Len(ann) > 0 THEN 1 ELSE 0]

\* a plausible slip: only a shorter replacements list is rejected
validate_args_shorter_only(a) == Len(a.replacements) < Len(a.disallowed)

\* validate_args: TRUE when it raises ValueError
validate_args(a) == Len(a.replacements) # Len(a.disallowed)

\* a plausible slip: `return_code = ...` instead of `return_code |= ...`
ReturnCodeAssign(rc, st) == st

\* return_code |= status
ReturnCodeOr(rc, st) == IF rc = 1 \/ st = 1 THEN 1 ELSE 0

\* --- command line arguments
Identifiers == {"function", "attribute"}
SampleNameLists == UNION { [1..n -> RuleNames] : n \in 1..MaxRules }
SampleReplacements == { [k \in 1..n |-> <<"repl", k>>] : n \in 1..MaxRules }
SampleFileLists == { [k \in 1..n |-> k] : n \in 1..MaxFiles }

ScInit ==
    /\ args \in [identifier : Identifiers, disallowed : SampleNameLists,
                 replacements : SampleReplacements, file_list : SampleFileLists]
    /\ main_pc = "parsed"
    /\ file_idx = 0
    /\ cur_file = NoFile
    /\ annotated_check_accumulator = <<>>
    /\ status = 0
    /\ printed = <<>>
    /\ printed_count = 0
    /\ results = <<>>
    /\ return_code = 0

ScIdle ==
    /\ args = <<>>
    /\ main_pc = "idle"
    /\ file_idx = 0
    /\ cur_file = NoFile
    /\ annotated_check_accumulator = <<>>
    /\ status = 0
    /\ printed = <<>>
    /\ printed_count = 0
    /\ results = <<>>
    /\ return_code = 0

\* __main__: print(args.identifier); validate_args(args)
ValidateArgs ==
    /\ main_pc = "parsed"
    /\ printed' = <<[text |-> "identifier", identifier |-> args.identifier]>>
    /\ printed_count' = printed_count + 1
    /\ main_pc' = IF validate_args(args) THEN "ValueError" ELSE "main"
    /\ UNCHANGED <<args, file_idx, cur_file, annotated_check_accumulator, status,
                   results, return_code>>
    /\ UNCHANGED scOthers

\* the loop of main calls check_identifiers on the next file of file_list: the
\* file (whose content is f) is opened, parsed, scanned and filtered, the
\* remaining violations are printed and the status is returned
CheckFile(f) ==
    /\ main_pc = "main"
    /\ file_idx < Len(args.file_list)
    /\ \E r \in {check_identifiers(f, args.file_list[file_idx + 1], args.identifier,
                                   args.disallowed, args.replacements)} :
       /\ cur_file' = f
       /\ file_idx' = file_idx + 1
       /\ annotated_check_accumulator' = r.annotated
       /\ printed' = r.out
       /\ printed_count' = printed_count + Len(r.out)
       /\ status' = r.rc
       /\ main_pc' = IF r.raised # "" THEN r.raised ELSE "returned"
    /\ UNCHANGED <<args, results, return_code>>
    /\ UNCHANGED scOthers

\* main: return_code |= <status returned by check_identifiers>; the locals of
\* the finished call are gone
OrStatus ==
    /\ main_pc = "returned"
    /\ return_code' = ReturnCodeOr(return_code, status)
    /\ results' = Append(results, status)
    /\ cur_file' = NoFile
    /\ annotated_check_accumulator' = <<>>
    /\ status' = 0
    /\ printed' = <<>>
    /\ main_pc' = "main"
    /\ UNCHANGED <<args, file_idx, printed_count>>
    /\ UNCHANGED scOthers

\* __main__: sys.exit(return_code)
SysExit ==
    /\ main_pc = "main"
    /\ file_idx = Len(args.file_list)
    /\ main_pc' = "exit"
    /\ UNCHANGED <<args, file_idx, cur_file, annotated_check_accumulator, status,
                   printed, printed_count, results, return_code>>
    /\ UNCHANGED scOthers

ScNext ==
    \/ ValidateArgs
    \/ \E f \in SampleSources : CheckFile(f)
    \/ OrStatus
    \/ SysExit

\* ------------------------------------------------------------------------
\* python_hooks/image_tag_branch_constraint.py
\* ------------------------------------------------------------------------
OperatorNames == {"DatabricksJobOperator", "DatabricksImageRepo",
                  "DatabricksSharedOperator", "DatabricksNotebookOperator"}

\* keyword.arg of a `**kwargs` argument is None
NoneArg == "None"

\* --- source files: one call statement, written on one line ("inline") or
\* with every keyword on a line of its own ("split"), and a comment per line
SampleFuncs == [type : {"Name", "Attribute"}, name : OperatorNames \cup {"Operator"}]
SampleKeywordArgs == {"image_tag", "branch", "task_id", NoneArg}
SampleKeywordLists == UNION { [1..n -> SampleKeywordArgs] : n \in 0..MaxKeywords }
CallLines(layout, keywords) == IF layout = "inline" THEN 1 ELSE 1 + Len(keywords)
SampleCallFiles ==
    UNION { UNION { [func : SampleFuncs, keywords : {kws}, layout : {lay},
                     comments : [1..CallLines(lay, kws) -> {"", NOQA}]]
                   : lay \in {"inline", "split"} }
            : kws \in SampleKeywordLists }

\* keyword.lineno and keyword.col_offset of the k-th keyword of the call
KeywordLine(f, k) == IF f.layout = "inline" THEN 1 ELSE 1 + k
KeywordCol(f, k) == IF f.layout = "inline" THEN 4 + 12 * k ELSE 4

CommentText(c) == IF c = "" THEN <<>> ELSE <<"#", c>>

RECURSIVE KeywordTokens(_, _)
KeywordTokens(kws, k) ==
    IF k > Len(kws) THEN <<>> ELSE <<kws[k], "=", "value", ",">> \o KeywordTokens(kws, k + 1)

\* the text of the file's lines, as the tokens ignore_check reads
CallFileText(f) ==
    LET head == (IF f.func.type = "Attribute" THEN <<"x", "=", "mod", ".", f.func.name, "(">>
                 ELSE <<"x", "=", f.func.name, "(">>)
    IN [l \in 1..Len(f.comments) |->
           (IF f.layout = "inline" THEN head \o KeywordTokens(f.keywords, 1) \o <<")">>
            ELSE IF l = 1 THEN head
            ELSE <<f.keywords[l - 1], "=", "value", ",">>
                 \o (IF l = Len(f.comments) THEN <<")">> ELSE <<>>))
           \o CommentText(f.comments[l])]

\* ast.parse: the ast.Call node of the statement with its keyword nodes
CallNode(f) ==
    [type |-> "Call", func_type |-> f.func.type, name |-> f.func.name, lineno |-> 1,
     keywords |-> [k \in 1..Len(f.keywords) |->
                      [arg |-> f.keywords[k], lineno |-> KeywordLine(f, k),
                       col_offset |-> KeywordCol(f, k)]]]

\* ast.walk: the call and, below it, nodes that are not calls
CallFileWalk(f) == <<CallNode(f), [type |-> "Name", func_type |-> "", name |-> "x", lineno |-> 1,
                                   keywords |-> <<>>]>>

\* a plausible slip: only image_tag is forbidden
ForbiddenKeywordImageTagOnly(arg) == arg = "image_tag"

\* keyword.arg == 'image_tag' or keyword.arg == 'branch'
ForbiddenKeyword(arg) == arg = "image_tag" \/ arg = "branch"

\* isinstance(node.func, ast.Name) and node.func.id in [...]
ConstrainedCall(node) ==
    node.type = "Call" /\ node.func_type = "Name" /\ node.name \in OperatorNames

\* the loop over node.keywords
RECURSIVE KeywordChecks(_, _)
KeywordChecks(keywords, k) ==
    IF k > Len(keywords) THEN <<>>
    ELSE (IF ForbiddenKeyword(keywords[k].arg)
          THEN <<IdentifierCheck(keywords[k].arg, "None", keywords[k].lineno, keywords[k].col_offset)>>
          ELSE <<>>)
         \o KeywordChecks(keywords, k + 1)

\* the loop of check_file over ast.walk(tree)
RECURSIVE ItAccumulate(_)
ItAccumulate(nodes) ==
    IF nodes = <<>> THEN <<>>
    ELSE (IF ConstrainedCall(Head(nodes)) THEN KeywordChecks(Head(nodes).keywords, 1) ELSE <<>>)
         \o ItAccumulate(Tail(nodes))

\* DISALLOWED_MESSAGE.format(name, filename, line)
ItMessage(check, filename) ==
    [text |-> "Flagged", name |-> check.name, filename |-> filename, line |-> check.line]

\* check_file(filename)
check_file(f, filename) ==
    LET acc == ItAccumulate(CallFileWalk(f))
        ann == ignore_check(CallFileText(f), acc)
    IN [recorded |-> acc,
        annotated |-> ann,
        out |-> [k \in 1..Len(ann) |-> ItMessage(ann[k], filename)],
        rc |-> IF ann # <<>> THEN 1 ELSE 0]

ItInit ==
    /\ it_file \in SampleCallFiles
    /\ it_recorded = <<>>
    /\ it_annotated = <<>>
    /\ it_printed = <<>>
    /\ it_status = 0
    /\ it_pc = "ready"

ItIdle ==
    /\ it_file = <<>>
    /\ it_recorded = <<>>
    /\ it_annotated = <<>>
    /\ it_printed = <<>>
    /\ it_status = 0
    /\ it_pc = "idle"

\* a call of check_file on the file
ItCheckFile ==
    /\ it_pc = "ready"
    /\ LET r == check_file(it_file, "file") IN
       /\ it_recorded' = r.recorded
       /\ it_annotated' = r.annotated
       /\ it_printed' = r.out
       /\ it_status' = r.rc
    /\ it_pc' = "returned"
    /\ UNCHANGED it_file
    /\ UNCHANGED itOthers

ItNext == ItCheckFile

\* ------------------------------------------------------------------------
\* python_hooks/app_constraints.py, pkg_constraints.py,
\* poetry_app_constraints.py, poetry_pkg_constraints.py
\* A string is a sequence of tokens; `s in c` and re.match are read on tokens.
\* ------------------------------------------------------------------------
Validators == {"app", "pkg", "poetry_app", "poetry_pkg"}
UvValidators == {"app", "pkg"}

\* _VERSION_OP_RE: the operators of (~=|\^|>=|<=|==|!=|<|>)
VersionOps == {"~=", "^", ">=", "<=", "==", "!=", "<", ">"}

NoneValue == <<"None">>

\* str.strip(): leading and trailing blanks removed
RECURSIVE LStrip(_)
LStrip(s) == IF s # <<>> /\ Head(s) = " " THEN LStrip(Tail(s)) ELSE s

RECURSIVE RStrip(_)
RStrip(s) == IF s # <<>> /\ s[Len(s)] = " " THEN RStrip(SubSeq(s, 1, Len(s) - 1)) ELSE s

Strip(s) == RStrip(LStrip(s))

\* index of the first token of s that is in toks, 0 when there is none
FirstIn(s, toks) ==
    IF \E i \in 1..Len(s) : s[i] \in toks
    THEN CHOOSE i \in 1..Len(s) : s[i] \in toks /\ \A j \in 1..(i - 1) : s[j] \notin toks
    ELSE 0

\* s.split(sep, 1)[0] and s.split(sep)[0]: the text before the first sep
BeforeFirst(s, sep) ==
    IF FirstIn(s, {sep}) = 0 THEN s ELSE SubSeq(s, 1, FirstIn(s, {sep}) - 1)

\* `sub in s` for a token sub
StrContains(s, sub) == \E i \in 1..Len(s) : s[i] = sub

\* re.match(r'...', s): s starts with one of the given texts; the token "~="
\* starts with "~"
StartsWith(s, prefixes) ==
    /\ s # <<>>
    /\ \/ Head(s) \in prefixes
       \/ Head(s) = "~=" /\ "~" \in prefixes

\* a plausible slip: the ignore list is compared with the name before the
\* extras are cut off
ParseDepKeepExtras(dep_str) ==
    LET s1 == Strip(dep_str)
        s2 == IF StrContains(s1, ";") THEN Strip(BeforeFirst(s1, ";")) ELSE s1
        at == FirstIn(s2, VersionOps)
    IN IF at = 0 THEN [matched |-> FALSE, dep_name |-> <<>>, constraint |-> <<>>]
       ELSE [matched |-> TRUE,
             dep_name |-> Strip(SubSeq(s2, 1, at - 1)),
             constraint |-> Strip(SubSeq(s2, at, Len(s2)))]

\* a plausible slip: the platform marker after ';' is not cut off
ParseDepKeepMarker(dep_str) ==
    LET s2 == Strip(dep_str)
        at == FirstIn(s2, VersionOps)
        name_part == Strip(SubSeq(s2, 1, at - 1))
    IN IF at = 0 THEN [matched |-> FALSE, dep_name |-> <<>>, constraint |-> <<>>]
       ELSE [matched |-> TRUE,
             dep_name |-> IF StrContains(name_part, "[")
                          THEN Strip(BeforeFirst(name_part, "[")) ELSE name_part,
             constraint |-> Strip(SubSeq(s2, at, Len(s2)))]

\* one iteration of _get_uv_dependencies on a dependency string
ParseDep(dep_str) ==
    LET s1 == Strip(dep_str)
        s2 == IF StrContains(s1, ";") THEN Strip(BeforeFirst(s1, ";")) ELSE s1
        at == FirstIn(s2, VersionOps)
        name_part == Strip(SubSeq(s2, 1, at - 1))
    IN IF at = 0 THEN [matched |-> FALSE, dep_name |-> <<>>, constraint |-> <<>>]
       ELSE [matched |-> TRUE,
             dep_name |-> IF StrContains(name_part, "[")
                          THEN Strip(BeforeFirst(name_part, "[")) ELSE name_part,
             constraint |-> Strip(SubSeq(s2, at, Len(s2)))]

\* a plausible slip: the application profile accepts '>=' for python as the
\* package profile does
PythonRuleOkMinimumEverywhere(v, c) ==
    CASE v = "app" -> StrContains(c, ">=") \/ StrContains(c, "~=")
      [] v = "pkg" -> StrContains(c, ">=") \/ StrContains(c, "~=")
      [] v = "poetry_app" -> StartsWith(c, {"~"})
      [] v = "poetry_pkg" -> StartsWith(c, {"^", ">="})

\* the test of the python rule of each validator: TRUE when the constraint is
\* accepted
PythonRuleOk(v, c) ==
    CASE v = "app" -> StrContains(c, "~=")
      [] v = "pkg" -> StrContains(c, ">=") \/ StrContains(c, "~=")
      [] v = "poetry_app" -> StartsWith(c, {"~"})
      [] v = "poetry_pkg" -> StartsWith(c, {"^", ">="})

\* a plausible slip: the package profile does not look for an upper bound
PackageRuleOkNoUpperBoundTest(v, c) ==
    CASE v = "app" -> StrContains(c, "~=")
      [] v = "pkg" -> StrContains(c, ">=")
      [] v = "poetry_app" -> StartsWith(c, {"^"})
      [] v = "poetry_pkg" ->
             ~(~StartsWith(c, {">="}) \/ ~(StartsWith(c, {">="}) /\ StartsWith(c, {"<="})))

\* the test of the package rule of each validator
PackageRuleOk(v, c) ==
    CASE v = "app" -> StrContains(c, "~=")
      [] v = "pkg" -> ~(~StrContains(c, ">=") \/ StrContains(c, "<="))
      [] v = "poetry_app" -> StartsWith(c, {"^"})
      [] v = "poetry_pkg" ->
             ~(~StartsWith(c, {">="}) \/ ~(StartsWith(c, {">="}) /\ StartsWith(c, {"<="})))

\* the two print calls of a failed validation
IncorrectFormat(dep_name, c, rule) ==
    << [text |-> "INCORRECT FORMAT", dep_name |-> dep_name, constraint |-> c],
       [text |-> "hint", dep_name |-> rule, constraint |-> <<>>] >>

\* _validate_python_constraint_* / validate_python_constraint
validate_python_constraint(v, dep_name, c) ==
    IF PythonRuleOk(v, c) THEN [rc |-> 0, out |-> <<>>]
    ELSE [rc |-> 1, out |-> IncorrectFormat(dep_name, c, <<"python rule">>)]

\* _validate_package_constraint_* / validate_package_constraint
validate_package_constraint(v, dep_name, c) ==
    IF PackageRuleOk(v, c) THEN [rc |-> 0, out |-> <<>>]
    ELSE [rc |-> 1, out |-> IncorrectFormat(dep_name, c, <<"package rule">>)]

\* a plausible slip: after a failure the later packages are skipped
GuardedPackageSkip(v, st, out, dep_name, c) ==
    IF st # 0 THEN [exit_status |-> st, out |-> out]
    ELSE LET r == validate_package_constraint(v, dep_name, c) IN
         [exit_status |-> r.rc, out |-> out \o r.out]

\* if exit_status != 0: validate(...) else: exit_status = validate(...)
GuardedPackage(v, st, out, dep_name, c) ==
    LET r == validate_package_constraint(v, dep_name, c) IN
    [exit_status |-> IF st # 0 THEN st ELSE r.rc, out |-> out \o r.out]

\* requires-python of a uv manifest: validated when it is set
UvPythonStep(v, project) ==
    IF project.requires_python # NoneValue
    THEN LET r == validate_python_constraint(v, <<"requires-python">>, project.requires_python) IN
         [exit_status |-> r.rc, out |-> r.out]
    ELSE [exit_status |-> 0, out |-> <<>>]

\* a plausible slip: a dependency string without a version operator is
\* validated as a package with an empty constraint
UvDepStepValidateUnmatched(v, ign, st, out, dep_str) ==
    LET d == ParseDep(dep_str) IN
    IF ~d.matched THEN GuardedPackage(v, st, out, dep_str, <<>>)
    ELSE IF InList(d.dep_name, ign) THEN [exit_status |-> st, out |-> out]
    ELSE GuardedPackage(v, st, out, d.dep_name, d.constraint)

\* body of the loop over _get_uv_dependencies(pyproject) for one dependency
UvDepStep(v, ign, st, out, dep_str) ==
    LET d == ParseDep(dep_str) IN
    IF ~d.matched THEN [exit_status |-> st, out |-> out]
    ELSE IF InList(d.dep_name, ign) THEN [exit_status |-> st, out |-> out]
    ELSE GuardedPackage(v, st, out, d.dep_name, d.constraint)

\* body of the loop over tool.poetry.dependencies for one entry; the value is
\* a string or a table with a version
PoetryEntryStep(v, ign, st, out, entry) ==
    LET c == entry.value.version IN
    IF entry.name = <<"python">>
    THEN LET r == validate_python_constraint(v, entry.name, c) IN
         [exit_status |-> r.rc, out |-> out \o r.out]
    ELSE IF ~InList(entry.name, ign)
    THEN GuardedPackage(v, st, out, entry.name, c)
    ELSE [exit_status |-> st, out |-> out]

\* the entries the loop of the validator goes through
LoopEntries(v, p) == IF v \in UvValidators THEN p.dependencies ELSE p.entries

EntryStep(v, ign, st, out, e) ==
    IF v \in UvValidators THEN UvDepStep(v, ign, st, out, e)
    ELSE PoetryEntryStep(v, ign, st, out, e)

\* the rest of validate_constraints from entry i + 1 on
RECURSIVE RunLoop(_, _, _, _, _, _)
RunLoop(v, ign, entries, i, st, out) ==
    IF i >= Len(entries) THEN [ret |-> st, out |-> out]
    ELSE LET s == EntryStep(v, ign, st, out, entries[i + 1]) IN
         RunLoop(v, ign, entries, i + 1, s.exit_status, s.out)

UvError == <<[text |-> "ERROR", dep_name |-> <<"uv">>, constraint |-> <<>>]>>

\* a plausible slip: any manifest with a project table counts as a uv project
is_uv_project_any_project_table(p) == "requires_python" \in DOMAIN p

\* _is_uv_project: the project table has a dependencies key
is_uv_project(p) == "dependencies" \in DOMAIN p

\* a plausible slip: a missing file is read as an empty manifest
load_missing_as_empty(p) ==
    [raised |-> "",
     pyproject |-> IF p.kind \in {"missing", "unreadable"} THEN [kind |-> "empty"] ELSE p]

\* toml.load(pyproject_path): open() raises FileNotFoundError for a missing
\* file and PermissionError for one that may not be read
load(p) ==
    CASE p.kind = "missing" -> [raised |-> "FileNotFoundError", pyproject |-> <<>>]
      [] p.kind = "unreadable" -> [raised |-> "PermissionError", pyproject |-> <<>>]
      [] OTHER -> [raised |-> "", pyproject |-> p]

\* the loop variables dep_name, constraint after the iteration over entry e;
\* a dependency string without a version operator is not yielded
LoopVars(v, e, prev) ==
    IF v \in UvValidators
    THEN LET d == ParseDep(e) IN
         IF d.matched THEN [dep_name |-> d.dep_name, constraint |-> d.constraint] ELSE prev
    ELSE [dep_name |-> e.name, constraint |-> e.value.version]

\* validate_constraints(ignore, pyproject_path) on a manifest that loads
validate_constraints(v, ign, p) ==
    IF v \in UvValidators
    THEN IF ~is_uv_project(p) THEN [ret |-> 1, out |-> UvError]
         ELSE LET s == UvPythonStep(v, p) IN
              RunLoop(v, ign, p.dependencies, 0, s.exit_status, s.out)
    ELSE RunLoop(v, ign, p.entries, 0, 0, <<>>)

\* --- manifests
SampleDepStrings ==
    { <<"tatari-foo", "~=", "1.0">>,
      <<"tatari-foo", ">=", "1.0">>,
      <<"tatari-foo", "[", "dev", "]", "~=", "1.0">>,
      <<"tatari-foo", ">=", "1.0", ",", "<=", "2.0">>,
      <<"tatari-bar", " ", "==", "2.0", " ", ";", " ", "python_version", "~=", "'3.8'">>,
      <<"ignored", "~=", "1.0">>,
      <<"ignored", ">=", "1.0">>,
      <<"ignored", "[", "dev", "]", " ", "==", "1.0">>,
      <<"bare">>,
      <<"tatari-foo", ">=", "1.0", ";", " ", "python_version", ">=", "'3.10'">>,
      <<"tatari-foo", " ", ";", " ", "python_version", "~=", "'3.10'">> }
SampleRequiresPython == { NoneValue, <<"~=", "3.10">>, <<">=", "3.10">>, <<"==", "3.10">> }
UvManifests ==
    [kind : {"uv"}, requires_python : SampleRequiresPython,
     dependencies : UNION { [1..n -> SampleDepStrings] : n \in 0..MaxDeps }]

PoetryNames == { <<"python">>, <<"tatari-foo">>, <<"ignored">> }
SamplePoetryConstraints ==
    { <<"^", "1.0">>, <<"~", "3.10">>, <<">=", "1.0">>, <<"1.0">>,
      <<">=", "3.3.2", ",", "<=", "3.4.1">> }
SamplePoetryValues == [form : {"str", "table"}, version : SamplePoetryConstraints]
\* the keys of a TOML table are distinct
PoetryManifests ==
    [kind : {"poetry"},
     entries : UNION { { e \in [1..n -> [name : PoetryNames, value : SamplePoetryValues]] :
                           \A a, b \in 1..n : a # b => e[a].name # e[b].name }
                       : n \in 0..MaxDeps }]

\* a manifest with a project table that has no dependencies key
ProjectOnlyManifests == [kind : {"project"}, requires_python : SampleRequiresPython]

\* no file at pyproject_path, or a file the process may not read
MissingManifest == [kind |-> "missing"]
UnreadableManifest == [kind |-> "unreadable"]

SampleIgnores == { <<>>, << <<"ignored">> >> }

CvInit ==
    /\ validator \in Validators
    /\ pyproject \in UvManifests \cup PoetryManifests \cup ProjectOnlyManifests
                     \cup {MissingManifest, UnreadableManifest}
    /\ ignore \in SampleIgnores
    /\ cv_pc = "start"
    /\ dep_idx = 0
    /\ exit_status = 0
    /\ cv_out = <<>>
    /\ cv_ret = NoneValue
    /\ cur_dep = NoneValue

CvIdle ==
    /\ validator = ""
    /\ pyproject = <<>>
    /\ ignore = <<>>
    /\ cv_pc = "idle"
    /\ dep_idx = 0
    /\ exit_status = 0
    /\ cv_out = <<>>
    /\ cv_ret = NoneValue
    /\ cur_dep = NoneValue

\* load(pyproject_path) raises: the error leaves validate_constraints
LoadRaises ==
    /\ cv_pc = "start"
    /\ load(pyproject).raised # ""
    /\ cv_pc' = load(pyproject).raised
    /\ UNCHANGED <<validator, pyproject, ignore, dep_idx, exit_status, cv_out, cv_ret, cur_dep>>
    /\ UNCHANGED cvOthers

\* a uv validator on a manifest without project.dependencies: the error is
\* printed and 1 is returned
NotUvProject ==
    /\ cv_pc = "start"
    /\ validator \in UvValidators
    /\ load(pyproject).raised = ""
    /\ ~is_uv_project(load(pyproject).pyproject)
    /\ cv_out' = cv_out \o UvError
    /\ cv_ret' = 1
    /\ cv_pc' = "returned"
    /\ UNCHANGED <<validator, pyproject, ignore, dep_idx, exit_status, cur_dep>>
    /\ UNCHANGED cvOthers

\* a uv validator: requires-python is validated first
UvPython ==
    /\ cv_pc = "start"
    /\ validator \in UvValidators
    /\ load(pyproject).raised = ""
    /\ is_uv_project(load(pyproject).pyproject)
    /\ LET s == UvPythonStep(validator, pyproject) IN
       /\ exit_status' = s.exit_status
       /\ cv_out' = cv_out \o s.out
    /\ cv_pc' = "loop"
    /\ UNCHANGED <<validator, pyproject, ignore, dep_idx, cv_ret, cur_dep>>
    /\ UNCHANGED cvOthers

\* a Poetry validator: pyproject['tool']['poetry']['dependencies'] raises
\* KeyError on a manifest without that table, else the loop starts
PoetryStart ==
    /\ cv_pc = "start"
    /\ validator \notin UvValidators
    /\ load(pyproject).raised = ""
    /\ cv_pc' = IF load(pyproject).pyproject.kind = "poetry" THEN "loop" ELSE "KeyError"
    /\ UNCHANGED <<validator, pyproject, ignore, dep_idx, exit_status, cv_out, cv_ret, cur_dep>>
    /\ UNCHANGED cvOthers

\* one iteration of the loop over the dependencies
LoopStep ==
    /\ cv_pc = "loop"
    /\ dep_idx < Len(LoopEntries(validator, pyproject))
    /\ LET s == EntryStep(validator, ignore, exit_status, cv_out,
                          LoopEntries(validator, pyproject)[dep_idx + 1]) IN
       /\ exit_status' = s.exit_status
       /\ cv_out' = s.out
    /\ cur_dep' = LoopVars(validator, LoopEntries(validator, pyproject)[dep_idx + 1], cur_dep)
    /\ dep_idx' = dep_idx + 1
    /\ UNCHANGED <<validator, pyproject, ignore, cv_pc, cv_ret>>
    /\ UNCHANGED cvOthers

\* return exit_status
ReturnStatus ==
    /\ cv_pc = "loop"
    /\ dep_idx = Len(LoopEntries(validator, pyproject))
    /\ cv_ret' = exit_status
    /\ cv_pc' = "returned"
    /\ UNCHANGED <<validator, pyproject, ignore, dep_idx, exit_status, cv_out, cur_dep>>
    /\ UNCHANGED cvOthers

CvNext ==
    \/ LoadRaises
    \/ NotUvProject
    \/ UvPython
    \/ PoetryStart
    \/ LoopStep
    \/ ReturnStatus

\* ------------------------------------------------------------------------
\* python_hooks/no_hardcoded_buckets.py
\* A line is a sequence of tokens; token i starts at column 2 * (i - 1).
\* ------------------------------------------------------------------------
TripleDouble == "\"\"\""
TripleSingle == "'''"

\* texts BUCKET_REGEX and REGION_REGEX match
BucketTexts == {"tatari-datalake-dev-us-east-1", "tatari-data-science"}
RegionTexts == {"us-east-1", "uswest2"}

\* the region name REGION_REGEX finds inside a bucket name, "" when none
RegionInBucket(t) == IF t = "tatari-datalake-dev-us-east-1" THEN "us-east-1" ELSE ""

ENV_CHECK_FUNCTIONS == {"is_production", "is_staging", "is_prodlike", "is_dev"}

TokenStart(i) == 2 * (i - 1)

\* BUCKET_REGEX.finditer(line): start and text of each match, left to right
RECURSIVE BucketFinditer(_, _)
BucketFinditer(line, i) ==
    IF i > Len(line) THEN <<>>
    ELSE (IF line[i] \in BucketTexts
          THEN <<[start |-> TokenStart(i), text |-> line[i]]>> ELSE <<>>)
         \o BucketFinditer(line, i + 1)

\* REGION_REGEX.finditer(line)
RECURSIVE RegionFinditer(_, _)
RegionFinditer(line, i) ==
    IF i > Len(line) THEN <<>>
    ELSE (IF line[i] \in RegionTexts
          THEN <<[start |-> TokenStart(i), text |-> line[i]]>>
          ELSE IF line[i] \in BucketTexts /\ RegionInBucket(line[i]) # ""
          THEN <<[start |-> TokenStart(i) + 1, text |-> RegionInBucket(line[i])]>>
          ELSE <<>>)
         \o RegionFinditer(line, i + 1)

\* BUCKET_REGEX.search(text)
BucketSearch(line) == BucketFinditer(line, 1) # <<>>

\* str.count(tok)
RECURSIVE Count(_, _)
Count(line, tok) ==
    IF line = <<>> THEN 0
    ELSE (IF Head(line) = tok THEN 1 ELSE 0) + Count(Tail(line), tok)

Violation(filename, line, col_offset, message, violation_type, matched_text) ==
    [filename |-> filename, line |-> line, col_offset |-> col_offset,
     message |-> message, violation_type |-> violation_type, matched_text |-> matched_text]

\* is_comment_or_docstring_line(line, in_docstring)
is_comment_or_docstring_line(line, flag) ==
    LET stripped == Strip(line)
        triple_double == Count(stripped, TripleDouble)
        triple_single == Count(stripped, TripleSingle)
    IN IF (triple_double > 0 \/ triple_single > 0) /\ (triple_double >= 2 \/ triple_single >= 2)
       THEN [should_skip |-> TRUE, in_docstring |-> flag]
       ELSE IF (triple_double > 0 \/ triple_single > 0) /\ (triple_double = 1 \/ triple_single = 1)
       THEN [should_skip |-> TRUE, in_docstring |-> ~flag]
       ELSE IF flag THEN [should_skip |-> TRUE, in_docstring |-> flag]
       ELSE IF stripped # <<>> /\ Head(stripped) = "#"
       THEN [should_skip |-> TRUE, in_docstring |-> flag]
       ELSE [should_skip |-> FALSE, in_docstring |-> flag]

\* re.IGNORECASE on the words of NOQA_PATTERN
Lower(t) ==
    CASE t = "NOQA:" -> "noqa:"
      [] t = "Hardcoded-Bucket" -> "hardcoded-bucket"
      [] OTHER -> t

\* \s*: the index of the first token from i on that is not blank
RECURSIVE SkipBlanks(_, _)
SkipBlanks(line, i) ==
    IF i <= Len(line) /\ line[i] = " " THEN SkipBlanks(line, i + 1) ELSE i

\* has_noqa_comment: NOQA_PATTERN.search(line), #\s*noqa:\s*hardcoded-bucket
has_noqa_comment(line) ==
    \E i \in 1..Len(line) :
        /\ line[i] = "#"
        /\ LET j == SkipBlanks(line, i + 1) IN
           /\ j <= Len(line)
           /\ Lower(line[j]) = "noqa:"
           /\ LET k == SkipBlanks(line, j + 1) IN
              k <= Len(line) /\ Lower(line[k]) = "hardcoded-bucket"

BucketViolations(filename, n, ms) ==
    [k \in 1..Len(ms) |->
        Violation(filename, n, ms[k].start, <<"Hardcoded bucket", ms[k].text>>,
                  "bucket", ms[k].text)]

\* the region matches of a line: each is skipped when BUCKET_REGEX finds
\* anything in the line
RegionViolations(filename, n, line) ==
    IF BucketSearch(line) THEN <<>>
    ELSE LET ms == RegionFinditer(line, 1) IN
         [k \in 1..Len(ms) |->
             Violation(filename, n, ms[k].start, <<"Hardcoded region", ms[k].text>>,
                       "region", ms[k].text)]

\* body of the loop of find_bucket_violations for line n, after the skip tests
LineViolations(filename, n, line, regions) ==
    BucketViolations(filename, n, BucketFinditer(line, 1))
    \o (IF regions THEN RegionViolations(filename, n, line) ELSE <<>>)

\* --- syntax trees
Constant(value) == [type |-> "Constant", value |-> value]
NameNode(id) == [type |-> "Name", name |-> id]
Call(func) == [type |-> "Call", func |-> func]
Assign(value, lineno, col_offset) ==
    [type |-> "Assign", value |-> value, lineno |-> lineno, col_offset |-> col_offset]
Return(value, lineno, col_offset) ==
    [type |-> "Return", value |-> value, lineno |-> lineno, col_offset |-> col_offset]
IfExp(test, body, orelse, lineno, col_offset) ==
    [type |-> "IfExp", test |-> test, body |-> body, orelse |-> orelse,
     lineno |-> lineno, col_offset |-> col_offset]
If(test, body, orelse, lineno, col_offset) ==
    [type |-> "If", test |-> test, body |-> body, orelse |-> orelse,
     lineno |-> lineno, col_offset |-> col_offset]

\* ast.iter_child_nodes(node), in field order
Children(node) ==
    CASE node.type = "If" -> <<node.test>> \o node.body \o node.orelse
      [] node.type = "IfExp" -> <<node.test, node.body, node.orelse>>
      [] node.type = "Assign" -> <<NameNode("target"), node.value>>
      [] node.type = "Return" -> <<node.value>>
      [] node.type = "Call" -> <<node.func>>
      [] node.type = "FunctionDef" -> node.body
      [] OTHER -> <<>>

\* ast.walk: breadth first
RECURSIVE Walk(_)
Walk(queue) ==
    IF queue = <<>> THEN <<>>
    ELSE <<Head(queue)>> \o Walk(Tail(queue) \o Children(Head(queue)))

\* _is_env_check(node)
is_env_check(node) ==
    /\ node.type = "Call"
    /\ node.func.type \in {"Name", "Attribute"}
    /\ node.func.name \in ENV_CHECK_FUNCTIONS

\* isinstance(x, ast.Constant) and isinstance(x.value, str) and
\* BUCKET_REGEX.search(x.value)
BucketLiteral(x) == x.type = "Constant" /\ x.value \in BucketTexts

ConditionalViolation(filename, lineno, col_offset, matched) ==
    Violation(filename, lineno, col_offset, <<"Environment-conditional bucket logic">>,
              "conditional", matched)

\* _check_body_for_buckets(filename, body, branch)
RECURSIVE check_body_for_buckets(_, _)
check_body_for_buckets(filename, body) ==
    IF body = <<>> THEN <<>>
    ELSE (IF Head(body).type \in {"Assign", "Return"} /\ BucketLiteral(Head(body).value)
          THEN <<ConditionalViolation(filename, Head(body).lineno, Head(body).col_offset,
                                      Head(body).value.value)>>
          ELSE <<>>)
         \o check_body_for_buckets(filename, Tail(body))

\* a plausible slip: the else body of an if statement is not examined
NodeViolationsIfBodyOnly(filename, node) ==
    IF node.type = "If"
    THEN IF is_env_check(node.test)
         THEN check_body_for_buckets(filename, node.body)
         ELSE <<>>
    ELSE IF node.type = "IfExp"
    THEN IF is_env_check(node.test)
         THEN (IF BucketLiteral(node.body)
               THEN <<ConditionalViolation(filename, node.lineno, node.col_offset,
                                           node.body.value)>> ELSE <<>>)
              \o (IF BucketLiteral(node.orelse)
                  THEN <<ConditionalViolation(filename, node.lineno, node.col_offset,
                                              node.orelse.value)>> ELSE <<>>)
         ELSE <<>>
    ELSE <<>>

\* the violations one node of the walk adds
NodeViolations(filename, node) ==
    IF node.type = "If"
    THEN IF is_env_check(node.test)
         THEN check_body_for_buckets(filename, node.body)
              \o check_body_for_buckets(filename, node.orelse)
         ELSE <<>>
    ELSE IF node.type = "IfExp"
    THEN IF is_env_check(node.test)
         THEN (IF BucketLiteral(node.body)
               THEN <<ConditionalViolation(filename, node.lineno, node.col_offset,
                                           node.body.value)>> ELSE <<>>)
              \o (IF BucketLiteral(node.orelse)
                  THEN <<ConditionalViolation(filename, node.lineno, node.col_offset,
                                              node.orelse.value)>> ELSE <<>>)
         ELSE <<>>
    ELSE <<>>

RECURSIVE WalkViolations(_, _)
WalkViolations(filename, nodes) ==
    IF nodes = <<>> THEN <<>>
    ELSE NodeViolations(filename, Head(nodes)) \o WalkViolations(filename, Tail(nodes))

\* find_conditional_bucket_violations(filename, content): nothing when
\* ast.parse raises SyntaxError
find_conditional_bucket_violations(filename, f) ==
    IF ~f.parses THEN <<>> ELSE WalkViolations(filename, Walk(f.tree))

\* a plausible slip: the category is left out of the key
ViolationKeyNoCategory(v) == <<v.filename, v.line, v.col_offset>>

\* key = (v.filename, v.line, v.col_offset, v.violation_type)
ViolationKey(v) == <<v.filename, v.line, v.col_offset, v.violation_type>>

\* the loop of check_file over violations with the set seen
RECURSIVE Deduplicate(_, _, _)
Deduplicate(vs, seen, unique) ==
    IF vs = <<>> THEN unique
    ELSE IF ViolationKey(Head(vs)) \notin seen
    THEN Deduplicate(Tail(vs), seen \cup {ViolationKey(Head(vs))}, Append(unique, Head(vs)))
    ELSE Deduplicate(Tail(vs), seen, unique)

\* --- files
\* lines without an if statement and without a conditional expression
SampleTextLines ==
    { <<"BUCKET", "=", "tatari-datalake-dev-us-east-1">>,
      <<"x", "=", "tatari-data-science", ";", "r", "=", "uswest2">>,
      <<"REGION", "=", "us-east-1">>,
      <<" ", "#", "tatari-data-science">>,
      <<TripleDouble, "tatari-data-science">>,
      <<TripleDouble, "us-east-1", TripleDouble>>,
      <<TripleDouble, "a", TripleDouble, TripleDouble, "tatari-data-science">>,
      <<"BUCKET", "=", "tatari-data-science", " ", "#", " ", "noqa:", " ", "hardcoded-bucket">>,
      <<"tatari-data-science", TripleSingle>>,
      <<"code", "=", "clean">> }

\* a file of such lines: whether ast.parse accepts it or raises SyntaxError,
\* the tree walk meets no If and no IfExp node
TextFile(lines) == [readable |-> TRUE, lines |-> lines, parses |-> FALSE, tree |-> <<>>]

SampleTextFiles ==
    { TextFile(ls) : ls \in UNION { [1..n -> SampleTextLines] : n \in 0..MaxBucketLines } }

\* the condition of an if: name(), obj.name()
SampleTests ==
    { [type |-> "Name", name |-> "is_production"],
      [type |-> "Attribute", name |-> "is_dev"],
      [type |-> "Name", name |-> "some_other_condition"] }

TestTokens(t) ==
    IF t.type = "Attribute" THEN <<"env", ".", t.name, "(", ")">> ELSE <<t.name, "(", ")">>

NoqaComments ==
    { <<>>, <<" ", "#", " ", "noqa:", " ", "hardcoded-bucket">>,
      <<" ", "#", "NOQA:", "hardcoded-bucket">> }

\* the statements of a branch: bucket = "<text>" or return "<text>"
SampleBranchStmts ==
    { [type |-> "Assign", value |-> "tatari-data-science", comment |-> <<>>],
      [type |-> "Assign", value |-> "tatari-data-science",
       comment |-> <<" ", "#", " ", "noqa:", " ", "hardcoded-bucket">>],
      [type |-> "Return", value |-> "tatari-data-science", comment |-> <<>>],
      [type |-> "Assign", value |-> "clean", comment |-> <<>>] }

SampleBodies == UNION { [1..n -> SampleBranchStmts] : n \in 1..MaxStmts }

BranchLine(st) ==
    (IF st.type = "Assign" THEN <<" ", "bucket", "=", st.value>>
     ELSE <<" ", "return", st.value>>) \o st.comment

\* the statements of a branch whose first line is line `first`; a statement
\* starts after the indentation
BranchNodes(stmts, first) ==
    [k \in 1..Len(stmts) |->
        IF stmts[k].type = "Assign"
        THEN Assign(Constant(stmts[k].value), first + k - 1, TokenStart(2))
        ELSE Return(Constant(stmts[k].value), first + k - 1, TokenStart(2))]

\* if <test>: <body> [else: <orelse>]
IfFile(test, body, orelse) ==
    [readable |-> TRUE,
     lines |-> << <<"if">> \o TestTokens(test) \o <<":">> >>
               \o [k \in 1..Len(body) |-> BranchLine(body[k])]
               \o (IF orelse = <<>> THEN <<>>
                   ELSE << <<"else", ":">> >> \o [k \in 1..Len(orelse) |-> BranchLine(orelse[k])]),
     parses |-> TRUE,
     tree |-> << If(Call(test), BranchNodes(body, 2),
                    BranchNodes(orelse, Len(body) + 3), 1, 0) >>]

\* y = "<a>" if <test> else "<b>"
TernaryFile(test, a, b, comment) ==
    [readable |-> TRUE,
     lines |-> << <<"y", "=", a, "if">> \o TestTokens(test) \o <<"else", b>> \o comment >>,
     parses |-> TRUE,
     tree |-> << Assign(IfExp(Call(test), Constant(a), Constant(b), 1, TokenStart(3)), 1, 0) >>]

\* if <outer>: if <inner>: <stmt>  -- the statement is two levels deep
NestedIfFile(outer, inner, st) ==
    [readable |-> TRUE,
     lines |-> << <<"if">> \o TestTokens(outer) \o <<":">>,
                  <<" ", "if">> \o TestTokens(inner) \o <<":">>,
                  <<" ">> \o BranchLine(st) >>,
     parses |-> TRUE,
     tree |-> << If(Call(outer),
                    << If(Call(inner),
                          << IF st.type = "Assign"
                             THEN Assign(Constant(st.value), 3, TokenStart(3))
                             ELSE Return(Constant(st.value), 3, TokenStart(3)) >>,
                          <<>>, 2, TokenStart(2)) >>,
                    <<>>, 1, 0) >>]

SampleCondFiles ==
    { IfFile(t, b, o) : t \in SampleTests, b \in SampleBodies, o \in SampleBodies \cup {<<>>} }
    \cup { NestedIfFile(t, u, st) : t \in SampleTests, u \in SampleTests, st \in SampleBranchStmts }
    \cup { TernaryFile(t, a, b, c) : t \in SampleTests,
                                     a \in {"tatari-data-science", "clean"},
                                     b \in {"tatari-datalake-dev-us-east-1", "clean"},
                                     c \in NoqaComments }

\* def broken(:  -- ast.parse raises SyntaxError
BrokenFile ==
    [readable |-> TRUE, lines |-> << <<"def", "broken", "(", ":">>, <<" ", "pass">> >>,
     parses |-> FALSE, tree |-> <<>>]

\* open(filename) raises OSError
UnreadableFile == [readable |-> FALSE, lines |-> <<>>, parses |-> FALSE, tree |-> <<>>]

SampleBucketFiles == SampleTextFiles \cup SampleCondFiles \cup {BrokenFile, UnreadableFile}

BucketFileName == "f.py"

BkInit ==
    /\ bk_file \in SampleBucketFiles
    /\ check_regions \in BOOLEAN
    /\ bk_pc = "start"
    /\ line_num = 0
    /\ in_docstring = FALSE
    /\ violations = <<>>
    /\ unique_violations = NoneValue
    /\ bk_stderr = <<>>

BkIdle ==
    /\ bk_file = <<>>
    /\ check_regions = FALSE
    /\ bk_pc = "idle"
    /\ line_num = 0
    /\ in_docstring = FALSE
    /\ violations = <<>>
    /\ unique_violations = NoneValue
    /\ bk_stderr = <<>>

\* check_file: the file cannot be opened; the error is printed and [] returned
ReadFails ==
    /\ bk_pc = "start"
    /\ ~bk_file.readable
    /\ bk_stderr' = Append(bk_stderr, <<"Error reading", BucketFileName>>)
    /\ unique_violations' = <<>>
    /\ bk_pc' = "returned"
    /\ UNCHANGED <<bk_file, check_regions, line_num, in_docstring, violations>>
    /\ UNCHANGED bkOthers

\* check_file: the content is read and find_bucket_violations starts
ReadFile ==
    /\ bk_pc = "start"
    /\ bk_file.readable
    /\ bk_pc' = "scan"
    /\ UNCHANGED <<bk_file, check_regions, line_num, in_docstring, violations,
                   unique_violations, bk_stderr>>
    /\ UNCHANGED bkOthers

\* one iteration of the loop of find_bucket_violations
ScanLine ==
    /\ bk_pc = "scan"
    /\ line_num < Len(bk_file.lines)
    /\ LET line == bk_file.lines[line_num + 1]
           c == is_comment_or_docstring_line(line, in_docstring)
       IN /\ in_docstring' = c.in_docstring
          /\ violations' =
                IF c.should_skip \/ has_noqa_comment(line) THEN violations
                ELSE violations \o LineViolations(BucketFileName, line_num + 1, line,
                                                  check_regions)
    /\ line_num' = line_num + 1
    /\ UNCHANGED <<bk_file, check_regions, bk_pc, unique_violations, bk_stderr>>
    /\ UNCHANGED bkOthers

\* find_bucket_violations returns
ScanDone ==
    /\ bk_pc = "scan"
    /\ line_num = Len(bk_file.lines)
    /\ bk_pc' = "ast"
    /\ UNCHANGED <<bk_file, check_regions, line_num, in_docstring, violations,
                   unique_violations, bk_stderr>>
    /\ UNCHANGED bkOthers

\* violations.extend(find_conditional_bucket_violations(filename, content))
FindConditional ==
    /\ bk_pc = "ast"
    /\ violations' = violations \o find_conditional_bucket_violations(BucketFileName, bk_file)
    /\ bk_pc' = "dedup"
    /\ UNCHANGED <<bk_file, check_regions, line_num, in_docstring, unique_violations, bk_stderr>>
    /\ UNCHANGED bkOthers

\* the violations are deduplicated and returned
ReturnUnique ==
    /\ bk_pc = "dedup"
    /\ unique_violations' = Deduplicate(violations, {}, <<>>)
    /\ bk_pc' = "returned"
    /\ UNCHANGED <<bk_file, check_regions, line_num, in_docstring, violations, bk_stderr>>
    /\ UNCHANGED bkOthers

BkNext ==
    \/ ReadFails
    \/ ReadFile
    \/ ScanLine
    \/ ScanDone
    \/ FindConditional
    \/ ReturnUnique

\* ------------------------------------------------------------------------
\* no_hardcoded_buckets.main
\* ------------------------------------------------------------------------
\* find_bucket_violations(filename, content, lines, check_regions): the loop
\* over the lines from line n + 1 on, with the in_docstring flag
RECURSIVE find_bucket_violations(_, _, _, _, _)
find_bucket_violations(filename, lines, n, flag, regions) ==
    IF n >= Len(lines) THEN <<>>
    ELSE LET c == is_comment_or_docstring_line(lines[n + 1], flag) IN
         (IF c.should_skip \/ has_noqa_comment(lines[n + 1]) THEN <<>>
          ELSE LineViolations(filename, n + 1, lines[n + 1], regions))
         \o find_bucket_violations(filename, lines, n + 1, c.in_docstring, regions)

\* no_hardcoded_buckets.check_file(filename, check_regions): the list returned and the line
\* written to stderr when the file cannot be opened
buckets_check_file(filename, f, regions) ==
    IF ~f.readable
    THEN [violations |-> <<>>, err |-> << [error |-> "Error reading", filename |-> filename] >>]
    ELSE [violations |->
            Deduplicate(find_bucket_violations(filename, f.lines, 0, FALSE, regions)
                        \o find_conditional_bucket_violations(filename, f), {}, <<>>),
          err |-> <<>>]

\* `word in matched` for the words get_suggestion looks for
InMatched(word, matched) == word = "datalake" /\ matched = "tatari-datalake-dev-us-east-1"

\* get_suggestion(violation): the text proposed, named by what it proposes
get_suggestion(v) ==
    IF v.violation_type = "conditional" THEN "avoid-conditional"
    ELSE IF InMatched("datalake", v.matched_text) /\ InMatched("temp", v.matched_text) THEN ".temp"
    ELSE IF InMatched("datalake", v.matched_text) THEN ".datalake"
    ELSE IF InMatched("scratch", v.matched_text) THEN ".scratch"
    ELSE IF InMatched("gx", v.matched_text) THEN ".gx"
    ELSE IF InMatched("xcom", v.matched_text) THEN ".xcom"
    ELSE ".<bucket_type>"

\* format_violation(violation, suggest)
format_violation(v, suggest) ==
    [filename |-> v.filename, line |-> v.line, message |-> v.message,
     suggestion |-> IF suggest THEN get_suggestion(v) ELSE NoneValue]

\* the options add_argument declares
DeclaredFlags == {"--warn-only", "--suggest", "--no-regions"}

\* a plausible slip: warn-only mode is not looked at
ReportStatusIgnoresWarnOnly(flags) == 1

\* if args.warn_only: return 0 / return 1
ReportStatus(flags) == IF "--warn-only" \in flags THEN 0 ELSE 1

\* --- command lines
SampleFlags == DeclaredFlags \cup {"--check-regions"}

RegionOnlyFile == TextFile(<< <<"REGION", "=", "us-east-1">> >>)

SampleMainFiles ==
    { RegionOnlyFile,
      TextFile(<< <<"BUCKET", "=", "tatari-datalake-dev-us-east-1">> >>),
      TextFile(<< <<"code", "=", "clean">> >>),
      IfFile([type |-> "Name", name |-> "is_production"],
             << [type |-> "Return", value |-> "tatari-data-science", comment |-> <<>>] >>,
             <<>>),
      UnreadableFile }

MainFileNames == <<"a.py", "b.py", "c.py", "d.py">>

BmInit ==
    /\ argv \in [flags : SUBSET SampleFlags,
                 files : UNION { [1..n -> SampleMainFiles] : n \in 0..MaxMainFiles }]
    /\ bm_pc = "start"
    /\ bm_idx = 0
    /\ all_violations = <<>>
    /\ bm_stderr = <<>>
    /\ bm_ret = NoneValue
    /\ bm_exit = NoneValue

BmIdle ==
    /\ argv = <<>>
    /\ bm_pc = "idle"
    /\ bm_idx = 0
    /\ all_violations = <<>>
    /\ bm_stderr = <<>>
    /\ bm_ret = NoneValue
    /\ bm_exit = NoneValue

\* parser.parse_args(argv): an option that was not declared ends the call
\* with SystemExit(2) after the usage message
ParseArgsExits ==
    /\ bm_pc = "start"
    /\ ~(argv.flags \subseteq DeclaredFlags)
    /\ bm_stderr' = Append(bm_stderr, [error |-> "unrecognized arguments"])
    /\ bm_exit' = 2
    /\ bm_pc' = "exited"
    /\ UNCHANGED <<argv, bm_idx, all_violations, bm_ret>>
    /\ UNCHANGED bmOthers

\* if not args.files: return 0
NoFilesGiven ==
    /\ bm_pc = "start"
    /\ argv.flags \subseteq DeclaredFlags
    /\ argv.files = <<>>
    /\ bm_ret' = 0
    /\ bm_pc' = "returned"
    /\ UNCHANGED <<argv, bm_idx, all_violations, bm_stderr, bm_exit>>
    /\ UNCHANGED bmOthers

\* one iteration of the loop over args.files
CheckNextFile ==
    /\ bm_pc \in {"start", "files"}
    /\ argv.flags \subseteq DeclaredFlags
    /\ bm_idx < Len(argv.files)
    /\ \E r \in { buckets_check_file(MainFileNames[bm_idx + 1], argv.files[bm_idx + 1],
                                     "--no-regions" \notin argv.flags) } :
          /\ all_violations' = all_violations \o r.violations
          /\ bm_stderr' = bm_stderr \o r.err
    /\ bm_idx' = bm_idx + 1
    /\ bm_pc' = "files"
    /\ UNCHANGED <<argv, bm_ret, bm_exit>>
    /\ UNCHANGED bmOthers

\* if all_violations: every violation is printed and the status returned
ReportViolations ==
    /\ bm_pc = "files"
    /\ bm_idx = Len(argv.files)
    /\ all_violations # <<>>
    /\ bm_stderr' = bm_stderr \o [k \in 1..Len(all_violations) |->
                                    format_violation(all_violations[k], "--suggest" \in argv.flags)]
    /\ bm_ret' = ReportStatus(argv.flags)
    /\ bm_pc' = "returned"
    /\ UNCHANGED <<argv, bm_idx, all_violations, bm_exit>>
    /\ UNCHANGED bmOthers

\* return 0 at the end of main
ReturnClean ==
    /\ bm_pc = "files"
    /\ bm_idx = Len(argv.files)
    /\ all_violations = <<>>
    /\ bm_ret' = 0
    /\ bm_pc' = "returned"
    /\ UNCHANGED <<argv, bm_idx, all_violations, bm_stderr, bm_exit>>
    /\ UNCHANGED bmOthers

BmNext ==
    \/ ParseArgsExits
    \/ NoFilesGiven
    \/ CheckNextFile
    \/ ReportViolations
    \/ ReturnClean

\* ------------------------------------------------------------------------
\* no_boto3_in_airflow_dags
\* ------------------------------------------------------------------------
\* a module name is the list of its dotted parts: boto3.session is
\* <<"boto3", "session">>
Import(names, lineno) == [type |-> "Import", names |-> names, lineno |-> lineno]
ImportFrom(module, lineno) == [type |-> "ImportFrom", module |-> module, lineno |-> lineno]
FunctionDef(body, lineno) == [type |-> "FunctionDef", body |-> body, lineno |-> lineno]

\* a plausible slip: every name that begins with the text boto3 is matched
IsBoto3AnyPrefix(name) == name # <<>> /\ Head(name) \in {"boto3", "boto3_utils"}

\* name == 'boto3' or name.startswith('boto3.')
IsBoto3(name) == name = <<"boto3">> \/ (Len(name) > 1 /\ Head(name) = "boto3")

Boto3Violation(filename, line, import_line) ==
    [filename |-> filename, line |-> line, import_line |-> import_line]

\* lines[node.lineno - 1] if node.lineno <= len(lines) else ''
ImportLineText(lines, lineno) == IF lineno <= Len(lines) THEN lines[lineno] ELSE <<>>

\* the inner loop over node.names of an ast.Import
RECURSIVE ImportViolations(_, _, _, _)
ImportViolations(filename, lines, node, k) ==
    IF k > Len(node.names) THEN <<>>
    ELSE (IF IsBoto3(node.names[k]) /\ ~Contains(ImportLineText(lines, node.lineno), NOQA)
          THEN <<Boto3Violation(filename, node.lineno, Strip(ImportLineText(lines, node.lineno)))>>
          ELSE <<>>)
         \o ImportViolations(filename, lines, node, k + 1)

\* the violations one node of the walk adds
Boto3NodeViolations(filename, lines, node) ==
    IF node.type = "Import" THEN ImportViolations(filename, lines, node, 1)
    ELSE IF node.type = "ImportFrom"
    THEN IF node.module # NoneValue /\ IsBoto3(node.module)
            /\ ~Contains(ImportLineText(lines, node.lineno), NOQA)
         THEN <<Boto3Violation(filename, node.lineno, Strip(ImportLineText(lines, node.lineno)))>>
         ELSE <<>>
    ELSE <<>>

RECURSIVE Boto3WalkViolations(_, _, _)
Boto3WalkViolations(filename, lines, nodes) ==
    IF nodes = <<>> THEN <<>>
    ELSE Boto3NodeViolations(filename, lines, Head(nodes))
         \o Boto3WalkViolations(filename, lines, Tail(nodes))

\* no_boto3_in_airflow_dags.check_file(filename): [] when the file cannot
\* be read and when ast.parse raises SyntaxError
boto3_check_file(filename, f) ==
    IF ~f.readable THEN <<>>
    ELSE IF ~f.parses THEN <<>>
    ELSE Boto3WalkViolations(filename, f.lines, Walk(f.tree))

\* format_violations(violations): one line per violation
format_violations(vs) == [k \in 1..Len(vs) |-> <<vs[k].filename, vs[k].line>>]

\* filename.endswith('.py')
EndsWithPy(filename) == filename.ext = ".py"

\* --- files
\* statements of one line: the statement, its text and whether the line
\* ends with the comment # tatari-noqa
SampleImportStmts ==
    { [kind |-> "Import", names |-> << <<"boto3">> >>, text |-> <<"import", "boto3">>],
      [kind |-> "Import", names |-> << <<"os">>, <<"boto3", "session">> >>,
       text |-> <<"import", "os", ",", "boto3.session">>],
      [kind |-> "Import", names |-> << <<"boto3_utils">> >>, text |-> <<"import", "boto3_utils">>],
      [kind |-> "ImportFrom", module |-> <<"boto3">>, text |-> <<"from", "boto3", "import", "client">>],
      [kind |-> "ImportFrom", module |-> <<"boto3", "session">>,
       text |-> <<"from", "boto3.session", "import", "Session">>],
      [kind |-> "ImportFrom", module |-> <<"botocore", "exceptions">>,
       text |-> <<"from", "botocore.exceptions", "import", "ClientError">>],
      [kind |-> "ImportFrom", module |-> NoneValue, text |-> <<"from", ".", "import", "boto3">>],
      [kind |-> "Other", text |-> <<"x", "=", "'import boto3'">>] }

\* a statement at the top of the module or in the body of a def, with or
\* without the marker
SampleImportItems ==
    { [stmt |-> s, noqa |-> FALSE, nested |-> n] : s \in SampleImportStmts, n \in BOOLEAN }
    \cup { [stmt |-> s, noqa |-> TRUE, nested |-> FALSE] : s \in SampleImportStmts }
    \cup { [stmt |-> [kind |-> "Import", names |-> << <<"boto3">> >>, text |-> <<"import", "boto3">>],
             noqa |-> TRUE, nested |-> TRUE] }

ItemLines(it) ==
    (IF it.nested THEN << <<"def", "f", "(", ")", ":">> >> ELSE <<>>)
    \o << (IF it.nested THEN <<" ">> ELSE <<>>) \o it.stmt.text
          \o (IF it.noqa THEN <<" ", "#", " ", NOQA>> ELSE <<>>) >>

StmtNode(st, lineno) ==
    CASE st.kind = "Import" -> Import(st.names, lineno)
      [] st.kind = "ImportFrom" -> ImportFrom(st.module, lineno)
      [] OTHER -> Assign(Constant(st.text[3]), lineno, 0)

\* the node of an item whose first line is line `first`
ItemNode(it, first) ==
    IF it.nested THEN FunctionDef(<<StmtNode(it.stmt, first + 1)>>, first)
    ELSE StmtNode(it.stmt, first)

RECURSIVE ItemsLines(_)
ItemsLines(items) ==
    IF items = <<>> THEN <<>> ELSE ItemLines(Head(items)) \o ItemsLines(Tail(items))

RECURSIVE ItemsTree(_, _)
ItemsTree(items, first) ==
    IF items = <<>> THEN <<>>
    ELSE <<ItemNode(Head(items), first)>>
         \o ItemsTree(Tail(items), first + Len(ItemLines(Head(items))))

ImportFile(items) ==
    [readable |-> TRUE, parses |-> TRUE, lines |-> ItemsLines(items), tree |-> ItemsTree(items, 1)]

\* def foo(  -- ast.parse raises SyntaxError
BrokenImportFile ==
    [readable |-> TRUE, parses |-> FALSE,
     lines |-> << <<"import", "boto3">>, <<"def", "foo", "(">> >>, tree |-> <<>>]

\* a file that is missing or is not UTF-8 text
UnreadableImportFile == [readable |-> FALSE, parses |-> FALSE, lines |-> <<>>, tree |-> <<>>]

SampleImportFiles ==
    { ImportFile(items) : items \in UNION { [1..n -> SampleImportItems] : n \in 1..MaxImportStmts } }
    \cup {BrokenImportFile, UnreadableImportFile}

\* the file names given after the first one
SampleOtherNames ==
    { [name |-> "b", ext |-> ".py", file |-> ImportFile(<< [stmt |-> s, noqa |-> FALSE, nested |-> FALSE] >>)] :
        s \in { [kind |-> "Import", names |-> << <<"boto3">> >>, text |-> <<"import", "boto3">>],
                [kind |-> "Other", text |-> <<"x", "=", "'import boto3'">>] } }
    \cup { [name |-> "b", ext |-> ".txt",
            file |-> ImportFile(<< [stmt |-> [kind |-> "Import", names |-> << <<"boto3">> >>,
                                              text |-> <<"import", "boto3">>],
                                     noqa |-> FALSE, nested |-> FALSE] >>)] }

B3Init ==
    /\ b3_filenames \in
          {<<>>}
          \cup { <<o>> : o \in SampleOtherNames }
          \cup { <<[name |-> "a", ext |-> ".py", file |-> f]>> : f \in SampleImportFiles }
          \cup { <<[name |-> "a", ext |-> ".py", file |-> f], o>> :
                    f \in SampleImportFiles, o \in SampleOtherNames }
    /\ b3_pc = "loop"
    /\ b3_idx = 0
    /\ b3_all_violations = <<>>
    /\ b3_stderr = <<>>
    /\ b3_ret = NoneValue

B3Idle ==
    /\ b3_filenames = <<>>
    /\ b3_pc = "idle"
    /\ b3_idx = 0
    /\ b3_all_violations = <<>>
    /\ b3_stderr = <<>>
    /\ b3_ret = NoneValue

\* if not filename.endswith('.py'): continue
SkipNonPython ==
    /\ b3_pc = "loop"
    /\ b3_idx < Len(b3_filenames)
    /\ ~EndsWithPy(b3_filenames[b3_idx + 1])
    /\ b3_idx' = b3_idx + 1
    /\ UNCHANGED <<b3_filenames, b3_pc, b3_all_violations, b3_stderr, b3_ret>>
    /\ UNCHANGED b3Others

\* all_violations.extend(check_file(filename))
CheckPythonFile ==
    /\ b3_pc = "loop"
    /\ b3_idx < Len(b3_filenames)
    /\ EndsWithPy(b3_filenames[b3_idx + 1])
    /\ b3_all_violations' =
          b3_all_violations \o boto3_check_file(b3_filenames[b3_idx + 1].name,
                                                b3_filenames[b3_idx + 1].file)
    /\ b3_idx' = b3_idx + 1
    /\ UNCHANGED <<b3_filenames, b3_pc, b3_stderr, b3_ret>>
    /\ UNCHANGED b3Others

\* if all_violations: print(format_violations(...)); return 1
Boto3Report ==
    /\ b3_pc = "loop"
    /\ b3_idx = Len(b3_filenames)
    /\ b3_all_violations # <<>>
    /\ b3_stderr' = b3_stderr \o format_violations(b3_all_violations)
    /\ b3_ret' = 1
    /\ b3_pc' = "returned"
    /\ UNCHANGED <<b3_filenames, b3_idx, b3_all_violations>>
    /\ UNCHANGED b3Others

\* return 0
Boto3ReturnClean ==
    /\ b3_pc = "loop"
    /\ b3_idx = Len(b3_filenames)
    /\ b3_all_violations = <<>>
    /\ b3_ret' = 0
    /\ b3_pc' = "returned"
    /\ UNCHANGED <<b3_filenames, b3_idx, b3_all_violations, b3_stderr>>
    /\ UNCHANGED b3Others

B3Next ==
    \/ SkipNonPython
    \/ CheckPythonFile
    \/ Boto3Report
    \/ Boto3ReturnClean

\* ------------------------------------------------------------------------
\* no_non_spark_buckets_in_spark_projects
\* ------------------------------------------------------------------------
SPARK_DEPENDENCIES ==
    {"python-tatari-pyspark", "python-tatari-ml-utils", "tatari-pyspark", "tatari-ml-utils",
     "pyspark"}

\* a directory without a pyproject.toml; also the None find_pyproject_toml
\* returns
NoManifest == [kind |-> "none"]

\* find_pyproject_toml(start_path): dirs are the directories from the one of
\* the file upwards, the filesystem root left out as the loop leaves it out
RECURSIVE find_pyproject_toml(_)
find_pyproject_toml(dirs) ==
    IF dirs = <<>> THEN NoManifest
    ELSE IF Head(dirs).kind # "none" THEN Head(dirs)
    ELSE find_pyproject_toml(Tail(dirs))

\* is_spark_project(pyproject_path): only the keys of tool.poetry.dependencies
\* are looked at; any exception gives False
is_spark_project(p) ==
    IF p.kind = "invalid" THEN FALSE
    ELSE IF p.kind = "poetry" THEN \E k \in 1..Len(p.dependencies) : p.dependencies[k] \in SPARK_DEPENDENCIES
    ELSE FALSE

\* \s+ from token i on: the index after the blanks, 0 when there is no blank
Blanks(line, i) == IF SkipBlanks(line, i) > i THEN SkipBlanks(line, i) ELSE 0

\* from\s+<module>\s+import\s+ at token i: the index after the match, 0 when
\* there is no match
FromImportAt(line, i, module) ==
    IF i > Len(line) \/ line[i] # "from" THEN 0
    ELSE LET a == Blanks(line, i + 1) IN
         IF a = 0 \/ a > Len(line) \/ line[a] # module THEN 0
         ELSE LET b == Blanks(line, a + 1) IN
              IF b = 0 \/ b > Len(line) \/ line[b] # "import" THEN 0
              ELSE Blanks(line, b + 1)

\* NON_SPARK_IMPORT_PATTERNS[k].search(line)
NonSparkPatternSearch(k, line) ==
    IF k = 1
    THEN \E i \in 1..Len(line) : FromImportAt(line, i, "tatari_data_utils.buckets") # 0
    ELSE \E i \in 1..Len(line) :
            /\ FromImportAt(line, i, "tatari_data_utils") # 0
            /\ \E j \in FromImportAt(line, i, "tatari_data_utils")..Len(line) :
                  line[j] = "get_default_buckets_for_env"

\* SPARK_IMPORT_PATTERN.search(line): the text buckets_spark inside a token
SparkImportSearch(line) ==
    \E i \in 1..Len(line) : line[i] \in {"tatari_data_utils.buckets_spark", "buckets_spark"}

\* re.IGNORECASE on the words of the noqa pattern
NsLower(t) ==
    CASE t = "NOQA:" -> "noqa:"
      [] t = "Non-Spark-Buckets" -> "non-spark-buckets"
      [] OTHER -> t

\* NOQA_PATTERN.search(line), #\s*noqa:\s*non-spark-buckets
NonSparkNoqaSearch(line) ==
    \E i \in 1..Len(line) :
        /\ line[i] = "#"
        /\ LET j == SkipBlanks(line, i + 1) IN
           /\ j <= Len(line)
           /\ NsLower(line[j]) = "noqa:"
           /\ LET k == SkipBlanks(line, j + 1) IN
              k <= Len(line) /\ NsLower(line[k]) = "non-spark-buckets"

NonSparkViolation(filename, line, import_line) ==
    [filename |-> filename, line |-> line, message |-> "Non-Spark bucket import detected",
     import_line |-> import_line]

\* for pattern in NON_SPARK_IMPORT_PATTERNS: ... break
PatternLoop(filename, n, line) ==
    IF NonSparkPatternSearch(1, line) THEN <<NonSparkViolation(filename, n, Strip(line))>>
    ELSE IF NonSparkPatternSearch(2, line) THEN <<NonSparkViolation(filename, n, Strip(line))>>
    ELSE <<>>

\* the body of the loop over the lines
NonSparkLineViolations(filename, n, line) ==
    IF NonSparkNoqaSearch(line) THEN <<>>
    ELSE IF SparkImportSearch(line) THEN <<>>
    ELSE PatternLoop(filename, n, line)

\* --- inputs
BucketsImport == <<"from", " ", "tatari_data_utils.buckets", " ", "import", " ", "DefaultBuckets">>

SampleSparkLines ==
    { BucketsImport,
      <<"from", " ", "tatari_data_utils", " ", "import", " ", "get_default_buckets_for_env">>,
      <<"from", " ", "tatari_data_utils", " ", "import", " ", "EnvironmentDefinition", ",", " ",
        "get_default_buckets_for_env">>,
      <<"from", " ", "tatari_data_utils.buckets_spark", " ", "import", " ", "DefaultBucketsSpark">>,
      BucketsImport \o <<" ", "#", " ", "noqa:", " ", "non-spark-buckets">>,
      BucketsImport \o <<" ", "#", "NOQA:", "Non-Spark-Buckets">>,
      BucketsImport \o <<" ", "#", " ", "buckets_spark">>,
      BucketsImport \o <<";", " ", "from", " ", "tatari_data_utils", " ", "import", " ",
                         "get_default_buckets_for_env">>,
      <<"from", " ", "tatari_data_utils", " ", "import", " ", "EnvironmentDefinition">>,
      <<"from", "tatari_data_utils.buckets", " ", "import", " ", "DefaultBuckets">>,
      <<"import", " ", "os">> }

SampleSparkFiles ==
    { [readable |-> TRUE, lines |-> ls] :
        ls \in UNION { [1..n -> SampleSparkLines] : n \in 1..MaxSparkLines } }
    \cup { [readable |-> FALSE, lines |-> <<>>] }

\* manifests: the keys of [tool.poetry.dependencies], the names of
\* [project] dependencies of a uv manifest, a file toml.load rejects
SampleSparkManifests ==
    { [kind |-> "poetry", dependencies |-> <<"python", d>>] :
        d \in SPARK_DEPENDENCIES \cup {"requests", "pyspark-stubs"} }
    \cup { [kind |-> "poetry", dependencies |-> <<>>] }
    \cup { [kind |-> "uv", dependencies |-> <<d>>] : d \in {"pyspark", "requests"} }
    \cup { [kind |-> "invalid"] }

\* the directories above the file, the nearest first
SampleDirs ==
    {<<>>, <<NoManifest>>}
    \cup { <<m>> : m \in SampleSparkManifests }
    \cup { <<NoManifest, m>> : m \in SampleSparkManifests }
    \cup { <<[kind |-> "poetry", dependencies |-> <<"python", "requests">>], m>> :
              m \in { [kind |-> "poetry", dependencies |-> <<"python", "pyspark">>] } }
    \cup { <<[kind |-> "poetry", dependencies |-> <<"python", "pyspark">>], m>> :
              m \in { [kind |-> "poetry", dependencies |-> <<"python", "requests">>] } }

SparkFileName == "job.py"

NsInit ==
    /\ ns_file \in SampleSparkFiles
    /\ ns_dirs \in SampleDirs
    /\ ns_pc = "start"
    /\ ns_pyproject = NoManifest
    /\ ns_line_num = 0
    /\ ns_violations = <<>>
    /\ ns_ret = NoneValue

NsIdle ==
    /\ ns_file = <<>>
    /\ ns_dirs = <<>>
    /\ ns_pc = "idle"
    /\ ns_pyproject = NoManifest
    /\ ns_line_num = 0
    /\ ns_violations = <<>>
    /\ ns_ret = NoneValue

\* pyproject = find_pyproject_toml(file_path); if not pyproject: return []
FindPyproject ==
    /\ ns_pc = "start"
    /\ ns_pyproject' = find_pyproject_toml(ns_dirs)
    /\ IF ns_pyproject'.kind = "none"
       THEN ns_ret' = <<>> /\ ns_pc' = "returned"
       ELSE ns_ret' = ns_ret /\ ns_pc' = "found"
    /\ UNCHANGED <<ns_file, ns_dirs, ns_line_num, ns_violations>>
    /\ UNCHANGED nsOthers

\* if not is_spark_project(pyproject): return []
NotSparkProject ==
    /\ ns_pc = "found"
    /\ ~is_spark_project(ns_pyproject)
    /\ ns_ret' = <<>>
    /\ ns_pc' = "returned"
    /\ UNCHANGED <<ns_file, ns_dirs, ns_pyproject, ns_line_num, ns_violations>>
    /\ UNCHANGED nsOthers

\* the file is read; an exception returns []
ReadSparkFile ==
    /\ ns_pc = "found"
    /\ is_spark_project(ns_pyproject)
    /\ IF ns_file.readable
       THEN ns_ret' = ns_ret /\ ns_pc' = "lines"
       ELSE ns_ret' = <<>> /\ ns_pc' = "returned"
    /\ UNCHANGED <<ns_file, ns_dirs, ns_pyproject, ns_line_num, ns_violations>>
    /\ UNCHANGED nsOthers

\* one iteration of the loop over the lines
CheckSparkLine ==
    /\ ns_pc = "lines"
    /\ ns_line_num < Len(ns_file.lines)
    /\ ns_violations' = ns_violations
          \o NonSparkLineViolations(SparkFileName, ns_line_num + 1, ns_file.lines[ns_line_num + 1])
    /\ ns_line_num' = ns_line_num + 1
    /\ UNCHANGED <<ns_file, ns_dirs, ns_pc, ns_pyproject, ns_ret>>
    /\ UNCHANGED nsOthers

\* return violations
ReturnSparkViolations ==
    /\ ns_pc = "lines"
    /\ ns_line_num = Len(ns_file.lines)
    /\ ns_ret' = ns_violations
    /\ ns_pc' = "returned"
    /\ UNCHANGED <<ns_file, ns_dirs, ns_pyproject, ns_line_num, ns_violations>>
    /\ UNCHANGED nsOthers

NsNext ==
    \/ FindPyproject
    \/ NotSparkProject
    \/ ReadSparkFile
    \/ CheckSparkLine
    \/ ReturnSparkViolations

\* ------------------------------------------------------------------------
\* validate_branch_name
\* ------------------------------------------------------------------------
\* a branch name is the list of its characters; "a" and "Z" stand for the
\* letters a-z and A-Z, "7" for the digits
PatternClass == {"a", "Z", "7", ".", "_", "/", "-"}

\* the upper limit of the quantifier {1,50}
MaxBranchLength == 50

\* `$`: the end of the string, or the place before a newline that ends it
AtDollar(s, n) == n = Len(s) \/ (n = Len(s) - 1 /\ s[Len(s)] = "\n")

\* re.match(EXPECTED_PATTERN, branch), ^(?![-.])[a-zA-Z0-9._/-]{1,50}$
PatternMatch(s) ==
    /\ ~(s # <<>> /\ s[1] \in {"-", "."})
    /\ \E n \in 1..MaxBranchLength :
          /\ n <= Len(s)
          /\ \A i \in 1..n : s[i] \in PatternClass
          /\ AtDollar(s, n)

ERROR_MESSAGE == "branch name can't start with hyphen or period"

\* --- branch names, as GITHUB_REF_NAME or git hands them over: the
\* characters of the pattern, "&", " ", a letter outside a-z and a newline
BranchAlphabet == PatternClass \cup {"&", " ", "\\u00e9", "\n"}

\* p times the letter a
Letters(p) == [i \in 1..p |-> "a"]

SampleBranches ==
    { h \o Letters(p) \o t :
        h \in UNION { [1..n -> BranchAlphabet] : n \in 0..MaxBranchHead },
        p \in {0, MaxBranchLength - 2, MaxBranchLength - 1, MaxBranchLength, MaxBranchLength + 1},
        t \in {<<>>, <<"\n">>} }

BrInit ==
    /\ branch \in SampleBranches
    /\ br_pc = "start"
    /\ br_printed = <<>>
    /\ br_ret = NoneValue

BrIdle ==
    /\ branch = <<>>
    /\ br_pc = "idle"
    /\ br_printed = <<>>
    /\ br_ret = NoneValue

\* validate_branch_name(branch)
ValidateBranchName ==
    /\ br_pc = "start"
    /\ IF PatternMatch(branch)
       THEN br_ret' = 0 /\ br_printed' = br_printed
       ELSE br_ret' = 1 /\ br_printed' = Append(br_printed, ERROR_MESSAGE)
    /\ br_pc' = "returned"
    /\ UNCHANGED branch
    /\ UNCHANGED brOthers

BrNext == ValidateBranchName

\* ------------------------------------------------------------------------
\* forbidden_imports
\* ------------------------------------------------------------------------
\* ast.alias(name, asname)
Alias(name, asname) == [name |-> name, asname |-> asname]

\* the loop over node.names from alias k on: the first alias whose name is
\* in forbidden_classes, NoneValue when there is none
RECURSIVE FirstForbiddenAlias(_, _, _)
FirstForbiddenAlias(names, k, forbidden) ==
    IF k > Len(names) THEN NoneValue
    ELSE IF InList(names[k].name, forbidden) THEN <<names[k].name>>
    ELSE FirstForbiddenAlias(names, k + 1, forbidden)

\* isinstance(node, ast.Import) | isinstance(node, ast.ImportFrom)
IsImportNode(node) == node.type \in {"Import", "ImportFrom"}

\* --- inputs
\* import <name> [as <asname>] and from <module> import <name>, ...
SampleForbiddenStmts ==
    { [type |-> "ImportFrom", names |-> <<Alias("date", NoneValue)>>],
      [type |-> "ImportFrom", names |-> <<Alias("SomeOKClass", NoneValue), Alias("date", NoneValue)>>],
      [type |-> "Import", names |-> <<Alias("enum", <<"en">>)>>],
      [type |-> "Import", names |-> <<Alias("dataclasses", NoneValue)>>],
      [type |-> "Assign", names |-> <<>>] }

\* a statement at the top of the module, or in the body of a def
ForbiddenItem(st, nested, lineno) ==
    IF nested THEN FunctionDef(<<st>>, lineno) ELSE st

SampleForbiddenBodies ==
    UNION { { [k \in 1..n |-> ForbiddenItem(items[k].stmt, items[k].nested, k)] :
                items \in [1..n -> [stmt : SampleForbiddenStmts, nested : BOOLEAN]] }
            : n \in 0..MaxImportNodes }

SampleForbiddenFiles ==
    { [parses |-> TRUE, body |-> b] : b \in SampleForbiddenBodies }
    \cup { [parses |-> FALSE, body |-> <<>>] }

SampleForbiddenLists ==
    { <<"date">>, <<"enum", "date">>, <<"SomeOKClass", "AnotherOKClass">>, <<"en">>, <<"AnotherOKClass">> }

FiInit ==
    /\ fi_file \in SampleForbiddenFiles
    /\ forbidden_classes \in SampleForbiddenLists
    /\ fi_pc = "start"
    /\ fi_idx = 0
    /\ fi_printed = <<>>
    /\ fi_ret = NoneValue
    /\ fi_raised = ""

FiIdle ==
    /\ fi_file = <<>>
    /\ forbidden_classes = <<>>
    /\ fi_pc = "idle"
    /\ fi_idx = 0
    /\ fi_printed = <<>>
    /\ fi_ret = NoneValue
    /\ fi_raised = ""

\* ast.parse raises SyntaxError, which check_imports does not catch
ParseRaises ==
    /\ fi_pc = "start"
    /\ ~fi_file.parses
    /\ fi_raised' = "SyntaxError"
    /\ fi_pc' = "raised"
    /\ UNCHANGED <<fi_file, forbidden_classes, fi_idx, fi_printed, fi_ret>>
    /\ UNCHANGED fiOthers

\* one iteration of the loop over tree.body: the first forbidden alias of an
\* import statement is printed and 1 returned
CheckBodyNode ==
    /\ fi_pc = "start"
    /\ fi_file.parses
    /\ fi_idx < Len(fi_file.body)
    /\ LET node == fi_file.body[fi_idx + 1]
           hit == IF IsImportNode(node)
                  THEN FirstForbiddenAlias(node.names, 1, forbidden_classes)
                  ELSE NoneValue
       IN IF hit # NoneValue
          THEN /\ fi_printed' = Append(fi_printed, <<"Flagged import of", hit[1]>>)
               /\ fi_ret' = 1
               /\ fi_pc' = "returned"
               /\ fi_idx' = fi_idx
          ELSE /\ fi_idx' = fi_idx + 1
               /\ UNCHANGED <<fi_printed, fi_ret, fi_pc>>
    /\ UNCHANGED <<fi_file, forbidden_classes, fi_raised>>
    /\ UNCHANGED fiOthers

\* return 0 after the loop
ReturnSuccess ==
    /\ fi_pc = "start"
    /\ fi_file.parses
    /\ fi_idx = Len(fi_file.body)
    /\ fi_ret' = 0
    /\ fi_pc' = "returned"
    /\ UNCHANGED <<fi_file, forbidden_classes, fi_idx, fi_printed, fi_raised>>
    /\ UNCHANGED fiOthers

FiNext ==
    \/ ParseRaises
    \/ CheckBodyNode
    \/ ReturnSuccess

vars == <<icVars, scVars, itVars, cvVars, bkVars, bmVars, b3Vars, nsVars, brVars, fiVars>>

InitIgnore == IcInit /\ ScIdle /\ ItIdle /\ CvIdle /\ BkIdle /\ BmIdle /\ B3Idle /\ NsIdle /\ BrIdle /\ FiIdle

SpecIgnore == InitIgnore /\ [][IcNext]_vars

InitScan == ScInit /\ IcIdle /\ ItIdle /\ CvIdle /\ BkIdle /\ BmIdle /\ B3Idle /\ NsIdle /\ BrIdle /\ FiIdle

SpecScan == InitScan /\ [][ScNext]_vars

InitImageTag == ItInit /\ IcIdle /\ ScIdle /\ CvIdle /\ BkIdle /\ BmIdle /\ B3Idle /\ NsIdle /\ BrIdle /\ FiIdle

SpecImageTag == InitImageTag /\ [][ItNext]_vars

InitConstraints == CvInit /\ IcIdle /\ ScIdle /\ ItIdle /\ BkIdle /\ BmIdle /\ B3Idle /\ NsIdle /\ BrIdle /\ FiIdle

SpecConstraints == InitConstraints /\ [][CvNext]_vars

InitBuckets == BkInit /\ IcIdle /\ ScIdle /\ ItIdle /\ CvIdle /\ BmIdle /\ B3Idle /\ NsIdle /\ BrIdle /\ FiIdle

SpecBuckets == InitBuckets /\ [][BkNext]_vars

InitBucketsMain == BmInit /\ IcIdle /\ ScIdle /\ ItIdle /\ CvIdle /\ BkIdle /\ B3Idle /\ NsIdle /\ BrIdle /\ FiIdle

SpecBucketsMain == InitBucketsMain /\ [][BmNext]_vars

InitBoto3 == B3Init /\ IcIdle /\ ScIdle /\ ItIdle /\ CvIdle /\ BkIdle /\ BmIdle /\ NsIdle /\ BrIdle /\ FiIdle

SpecBoto3 == InitBoto3 /\ [][B3Next]_vars

InitNonSpark == NsInit /\ IcIdle /\ ScIdle /\ ItIdle /\ CvIdle /\ BkIdle /\ BmIdle /\ B3Idle /\ BrIdle /\ FiIdle

SpecNonSpark == InitNonSpark /\ [][NsNext]_vars

InitBranchName == BrInit /\ IcIdle /\ ScIdle /\ ItIdle /\ CvIdle /\ BkIdle /\ BmIdle /\ B3Idle /\ NsIdle /\ FiIdle

SpecBranchName == InitBranchName /\ [][BrNext]_vars

InitForbiddenImports == FiInit /\ IcIdle /\ ScIdle /\ ItIdle /\ CvIdle /\ BkIdle /\ BmIdle /\ B3Idle /\ NsIdle /\ BrIdle

SpecForbiddenImports == InitForbiddenImports /\ [][FiNext]_vars

\* ------------------------------------------------------------------------
\* Claims about ignore_check
\* ------------------------------------------------------------------------
LineHasMarker(lines, l) == l \in 1..Len(lines) /\ Contains(lines[l], NOQA)

\* C1: ignore_check returns, in their original relative order, exactly the
\* records whose 1-based source line does not contain 'tatari-noqa'; one
\* marker occurrence removes every record of its line (equal records too).
C1_IgnoreCheckFilters ==
    ic_pc = "checked" =>
        annotated = SelectSeq(input_check_fails, LAMBDA c : ~LineHasMarker(file_lines, c.line))

\* C1 witness: two equal records on a marked line were removed together while
\* a record of an unmarked line was kept.
C1_Witness ==
    /\ ic_pc = "checked"
    /\ \E a, b \in DOMAIN input_check_fails :
          /\ a # b
          /\ input_check_fails[a] = input_check_fails[b]
          /\ LineHasMarker(file_lines, input_check_fails[a].line)
    /\ annotated # <<>>
    /\ Len(annotated) < Len(input_check_fails)

\* C4: adding the marker to one violating line removes that line's violations
\* and neither removes nor adds a violation of any other line.
C4_SuppressionMonotonic ==
    ic_pc = "rechecked" =>
        annotated = SelectSeq(prev_annotated, LAMBDA c : c.line # marked_line)

\* C4 witness: the marked line was violating and another line's violation
\* survives the edit.
C4_Witness ==
    /\ ic_pc = "rechecked"
    /\ \E a \in DOMAIN prev_annotated : prev_annotated[a].line = marked_line
    /\ annotated # <<>>

\* ------------------------------------------------------------------------
\* Claims about the tree scanner (disallowed_identifiers)
\* ------------------------------------------------------------------------
IsCallShape(shape) == shape \in {"attr_call", "name_call", "chain_call"}

ReportedAt(l, name) ==
    \E k \in 1..Len(printed) :
        printed[k].text = "Flagged" /\ printed[k].line = l /\ printed[k].name = name

\* C2: in function mode a violation is reported for a call if and only if the
\* call's target name, written as obj.name(...) or as name(...), equals an
\* entry of the disallowed list and the call's line lacks the marker.
C2_FunctionModeFlagsEveryCall ==
    (main_pc = "returned" /\ args.identifier = "function") =>
        \A l \in 1..Len(cur_file) :
            ReportedAt(l, cur_file[l].stmt.name) <=>
                /\ IsCallShape(cur_file[l].stmt.shape)
                /\ InList(cur_file[l].stmt.name, args.disallowed)
                /\ cur_file[l].comment # NOQA

RECURSIVE AnyOne(_)
AnyOne(rs) == IF rs = <<>> THEN 0 ELSE IF Head(rs) = 1 THEN 1 ELSE AnyOne(Tail(rs))

\* C3: the exit status of a run is 0 if no file has an un-suppressed violation
\* and 1 otherwise: a file's status is 1 exactly when violations remain after
\* suppression, a recorded failure is never cleared by a later clean file, and
\* every file of the list is scanned even after an earlier one failed.
C3_ExitStatusAggregates ==
    /\ main_pc = "returned" =>
          (status = 1 <=> Len(annotated_check_accumulator) > 0) /\ status \in {0, 1}
    /\ main_pc \in {"main", "returned", "exit"} => return_code = AnyOne(results)
    /\ main_pc = "exit" => Len(results) = Len(args.file_list)

\* C3 witness: a run over two files ended with status 1 although the second
\* file was clean.
C3_Witness ==
    main_pc = "exit" /\ results = <<1, 0>> /\ return_code = 1

\* C5: with lists of different lengths the run ends in ValueError raised by
\* validate_args before any file is opened, parsed or scanned: no violation
\* is printed and no scan result exists.
C5_MismatchFailsBeforeScanning ==
    (main_pc # "parsed" /\ Len(args.disallowed) # Len(args.replacements)) =>
        /\ main_pc = "ValueError"
        /\ file_idx = 0
        /\ cur_file = NoFile
        /\ results = <<>>
        /\ annotated_check_accumulator = <<>>
        /\ printed_count = 1
        /\ \A k \in 1..Len(printed) : printed[k].text # "Flagged"

\* C5 witness: validate_args raised for more replacements than names.
C5_Witness ==
    main_pc = "ValueError" /\ Len(args.replacements) > Len(args.disallowed)

FirstEqual(lst, x) ==
    CHOOSE i \in 1..Len(lst) : lst[i] = x /\ \A j \in 1..(i - 1) : lst[j] # x

\* C6: the replacement shown for a flagged node is the entry of the
\* replacements list at the index of the first entry of the disallowed list
\* equal to the node's name, also when the name is listed more than once.
C6_ReplacementOfFirstMatch ==
    main_pc = "returned" =>
        \A k \in 1..Len(printed) :
            printed[k].replacement = args.replacements[FirstEqual(args.disallowed, printed[k].name)]

\* C6 witness: a violation was printed for a name listed twice.
C6_Witness ==
    /\ main_pc = "returned"
    /\ \E k \in 1..Len(printed) :
          \E i, j \in 1..Len(args.disallowed) :
              i # j /\ args.disallowed[i] = printed[k].name /\ args.disallowed[j] = printed[k].name

\* ------------------------------------------------------------------------
\* Claims about image_tag_branch_constraint.check_file
\* ------------------------------------------------------------------------
RecordsAt(recs, l, c) == { k \in 1..Len(recs) : recs[k].line = l /\ recs[k].col_offset = c }

DeclaredName(v, e) == IF v \in UvValidators THEN <<Head(Strip(e))>> ELSE e.name

\* the messages of entry e when it is validated and fails, else nothing
EntryMessages(v, ign, e) ==
    IF v \in UvValidators
    THEN LET d == ParseDep(e) IN
         IF d.matched /\ ~InList(DeclaredName(v, e), ign) /\ ~PackageRuleOk(v, d.constraint)
         THEN IncorrectFormat(d.dep_name, d.constraint, <<"package rule">>) ELSE <<>>
    ELSE IF e.name = <<"python">>
    THEN (IF PythonRuleOk(v, e.value.version)
          THEN <<>> ELSE IncorrectFormat(e.name, e.value.version, <<"python rule">>))
    ELSE IF ~InList(e.name, ign) /\ ~PackageRuleOk(v, e.value.version)
    THEN IncorrectFormat(e.name, e.value.version, <<"package rule">>)
    ELSE <<>>

PythonMessages(v, p) ==
    IF v \in UvValidators /\ p.requires_python # NoneValue /\ ~PythonRuleOk(v, p.requires_python)
    THEN IncorrectFormat(<<"requires-python">>, p.requires_python, <<"python rule">>)
    ELSE <<>>

RECURSIVE MessagesUpTo(_, _, _, _)
MessagesUpTo(v, ign, entries, n) ==
    IF n = 0 THEN <<>>
    ELSE MessagesUpTo(v, ign, entries, n - 1) \o EntryMessages(v, ign, entries[n])

\* some validated entry of the manifest violates its rule
SomeEntryFails(v, ign, p) ==
    \/ PythonMessages(v, p) # <<>>
    \/ \E k \in 1..Len(LoopEntries(v, p)) : EntryMessages(v, ign, LoopEntries(v, p)[k]) # <<>>

\* the run went through the manifest's entries and returned
ReturnedFromLoop == cv_pc = "returned" /\ pyproject.kind = (IF validator \in UvValidators THEN "uv" ELSE "poetry")

\* C8: in every constraint validator and for every order of the entries,
\* validate_constraints returns 1 whenever a validated entry violates its
\* rule; a recorded failure is never set back to 0.
C8_FailureNeverCleared ==
    ReturnedFromLoop => (SomeEntryFails(validator, ignore, pyproject) => cv_ret = 1)

\* C9: validate_constraints never stops at the first failure: every validated
\* entry is evaluated and every failing one has its INCORRECT FORMAT message
\* printed before the exit status is returned.
C9_EveryFailurePrinted ==
    /\ (cv_pc = "loop" \/ ReturnedFromLoop) =>
          cv_out = PythonMessages(validator, pyproject)
                   \o MessagesUpTo(validator, ignore, LoopEntries(validator, pyproject), dep_idx)
    /\ ReturnedFromLoop => dep_idx = Len(LoopEntries(validator, pyproject))

\* C9 witness: a run returned after printing the messages of two failing
\* dependencies.
C9_Witness ==
    /\ ReturnedFromLoop
    /\ cv_ret = 1
    /\ \E a, b \in 1..Len(cv_out) :
          a < b /\ cv_out[a].text = "INCORRECT FORMAT" /\ cv_out[b].text = "INCORRECT FORMAT"
          /\ cv_out[a].dep_name # <<"requires-python">> /\ cv_out[a].dep_name # <<"python">>

\* C10: in app_constraints and pkg_constraints a dependency whose name, extras
\* stripped, is on the ignore list never influences the result: changing its
\* constraint changes neither the exit status nor the messages, while a
\* non-ignored dependency that violates the package rule still gives 1.
C10_IgnoredNeverInfluences ==
    (ReturnedFromLoop /\ validator \in UvValidators) =>
        /\ \A k \in 1..Len(pyproject.dependencies) :
              \A alt \in SampleDepStrings :
                  ( /\ InList(DeclaredName(validator, pyproject.dependencies[k]), ignore)
                    /\ DeclaredName(validator, alt) = DeclaredName(validator, pyproject.dependencies[k]) )
                  => validate_constraints(validator, ignore,
                                          [pyproject EXCEPT !.dependencies[k] = alt])
                     = [ret |-> cv_ret, out |-> cv_out]
        /\ (\E k \in 1..Len(pyproject.dependencies) :
                EntryMessages(validator, ignore, pyproject.dependencies[k]) # <<>>) => cv_ret = 1

\* C10 witness: a run returned 0 although an ignored dependency, declared
\* with extras, carries a constraint the package rule rejects.
C10_Witness ==
    /\ ReturnedFromLoop
    /\ validator \in UvValidators
    /\ cv_ret = 0
    /\ \E k \in 1..Len(pyproject.dependencies) :
          /\ InList(DeclaredName(validator, pyproject.dependencies[k]), ignore)
          /\ StrContains(pyproject.dependencies[k], "[")
          /\ ~PackageRuleOk(validator, ParseDep(pyproject.dependencies[k]).constraint)

\* ------------------------------------------------------------------------
\* Claims about the rules of the constraint validators
\* ------------------------------------------------------------------------
\* the requirement of a dependency string: the text before the first ';'
RequirementPart(e) == BeforeFirst(e, ";")

\* the requirement carries a version operator
CarriesOperator(e) == FirstIn(RequirementPart(e), VersionOps) # 0

\* s without the bracketed extras
RECURSIVE WithoutExtras(_, _)
WithoutExtras(s, inside) ==
    IF s = <<>> THEN <<>>
    ELSE IF Head(s) = "[" THEN WithoutExtras(Tail(s), TRUE)
    ELSE IF Head(s) = "]" THEN WithoutExtras(Tail(s), FALSE)
    ELSE IF inside THEN WithoutExtras(Tail(s), inside)
    ELSE <<Head(s)>> \o WithoutExtras(Tail(s), inside)

\* the name and the constraint a dependency string states
StatedName(e) ==
    Strip(WithoutExtras(SubSeq(RequirementPart(e), 1,
                               FirstIn(RequirementPart(e), VersionOps) - 1), FALSE))

StatedConstraint(e) ==
    Strip(SubSeq(RequirementPart(e), FirstIn(RequirementPart(e), VersionOps),
                 Len(RequirementPart(e))))

\* the dependencies of a uv manifest that are validated
ValidatedDeps(p, ign) ==
    { k \in 1..Len(p.dependencies) :
        CarriesOperator(p.dependencies[k]) /\ ~InList(StatedName(p.dependencies[k]), ign) }

\* C11: app_constraints.validate_constraints on a uv manifest returns 0 if and
\* only if requires-python, when declared, contains '~=' and every non-ignored
\* dependency that carries a version operator has a constraint containing
\* '~='; otherwise it returns 1.
C11_ApplicationProfile ==
    (validator = "app" /\ ReturnedFromLoop) =>
        cv_ret = (IF /\ (pyproject.requires_python # NoneValue
                           => StrContains(pyproject.requires_python, "~="))
                     /\ \A k \in ValidatedDeps(pyproject, ignore) :
                           StrContains(StatedConstraint(pyproject.dependencies[k]), "~=")
                  THEN 0 ELSE 1)

\* C11 witness: requires-python ">=3.10" gave 1 although every dependency of
\* the manifest uses '~='.
C11_Witness ==
    /\ validator = "app"
    /\ ReturnedFromLoop
    /\ cv_ret = 1
    /\ pyproject.requires_python = <<">=", "3.10">>
    /\ Len(pyproject.dependencies) > 0
    /\ \A k \in 1..Len(pyproject.dependencies) :
          CarriesOperator(pyproject.dependencies[k])
          /\ StrContains(StatedConstraint(pyproject.dependencies[k]), "~=")

\* C12: pkg_constraints.validate_constraints on a uv manifest returns 0 if and
\* only if requires-python, when declared, contains '>=' or '~=' and every
\* non-ignored dependency that carries a version operator has a constraint
\* that contains '>=' and does not contain '<='; otherwise it returns 1.
C12_PackageProfile ==
    (validator = "pkg" /\ ReturnedFromLoop) =>
        cv_ret = (IF /\ (pyproject.requires_python # NoneValue
                           => \/ StrContains(pyproject.requires_python, ">=")
                              \/ StrContains(pyproject.requires_python, "~="))
                     /\ \A k \in ValidatedDeps(pyproject, ignore) :
                           /\ StrContains(StatedConstraint(pyproject.dependencies[k]), ">=")
                           /\ ~StrContains(StatedConstraint(pyproject.dependencies[k]), "<=")
                  THEN 0 ELSE 1)

\* C12 witness: a dependency with '>=' and an upper bound '<=' gave 1 under a
\* valid requires-python.
C12_Witness ==
    /\ validator = "pkg"
    /\ ReturnedFromLoop
    /\ cv_ret = 1
    /\ pyproject.requires_python = <<">=", "3.10">>
    /\ Len(pyproject.dependencies) = 1
    /\ StrContains(pyproject.dependencies[1], ">=")
    /\ StrContains(pyproject.dependencies[1], "<=")

\* the constraint of a Poetry entry starts with one of the given texts
EntryStartsWith(e, texts) ==
    e.value.version # <<>> /\ Head(e.value.version) \in texts

\* C13: poetry_pkg_constraints accepts a package constraint that starts with
\* '>=' and rejects any other, so a Poetry manifest whose python constraint
\* starts with '^' or '>=' and whose packages all start with '>=' yields exit
\* status 0.
C13_PoetryPackageMinimum ==
    (validator = "poetry_pkg" /\ ReturnedFromLoop) =>
        /\ \A k \in 1..Len(pyproject.entries) :
              validate_package_constraint(validator, pyproject.entries[k].name,
                                          pyproject.entries[k].value.version).rc
              = (IF EntryStartsWith(pyproject.entries[k], {">="}) THEN 0 ELSE 1)
        /\ (\A k \in 1..Len(pyproject.entries) :
               IF pyproject.entries[k].name = <<"python">>
               THEN EntryStartsWith(pyproject.entries[k], {"^", ">="})
               ELSE EntryStartsWith(pyproject.entries[k], {">="}))
           => cv_ret = 0

\* C14: poetry_app_constraints.validate_constraints returns 0 if and only if
\* the python entry, when present, has a constraint that starts with '~' and
\* every non-ignored package entry has a constraint that starts with '^', the
\* constraint being the entry's string value or the version of its table.
C14_PoetryApplicationProfile ==
    (validator = "poetry_app" /\ ReturnedFromLoop) =>
        cv_ret = (IF \A k \in 1..Len(pyproject.entries) :
                        IF pyproject.entries[k].name = <<"python">>
                        THEN EntryStartsWith(pyproject.entries[k], {"~", "~="})
                        ELSE InList(pyproject.entries[k].name, ignore)
                             \/ EntryStartsWith(pyproject.entries[k], {"^"})
                  THEN 0 ELSE 1)

\* the dependency string reduced to its stated name and constraint
Normalised(e) == IF CarriesOperator(e) THEN StatedName(e) \o StatedConstraint(e) ELSE <<>>

\* C15: for a dependency string that carries a version operator,
\* _get_uv_dependencies yields as name the text before the first operator
\* without the bracketed extras and as constraint the text from the first
\* operator up to the first ';', so platform markers and extras never change
\* the outcome of the validation.
C15_UvDependencyParsing ==
    (validator \in UvValidators /\ (cv_pc = "loop" \/ ReturnedFromLoop)) =>
        /\ (dep_idx >= 1 /\ CarriesOperator(pyproject.dependencies[dep_idx])) =>
              cur_dep = [dep_name |-> StatedName(pyproject.dependencies[dep_idx]),
                         constraint |-> StatedConstraint(pyproject.dependencies[dep_idx])]
        /\ cv_pc = "returned" =>
              validate_constraints(validator, ignore,
                  [pyproject EXCEPT !.dependencies =
                      [k \in 1..Len(pyproject.dependencies) |->
                          Normalised(pyproject.dependencies[k])]])
              = [ret |-> cv_ret, out |-> cv_out]

\* C15 witness: under the application rule 'tatari-foo[dev]~=1.0' passed and
\* "tatari-foo>=1.0; python_version>='3.10'" failed with constraint '>=1.0'.
C15_Witness ==
    /\ validator = "app"
    /\ ReturnedFromLoop
    /\ pyproject.dependencies =
          << <<"tatari-foo", "[", "dev", "]", "~=", "1.0">>,
             <<"tatari-foo", ">=", "1.0", ";", " ", "python_version", ">=", "'3.10'">> >>
    /\ pyproject.requires_python = NoneValue
    /\ cur_dep = [dep_name |-> <<"tatari-foo">>, constraint |-> <<">=", "1.0">>]
    /\ cv_ret = 1
    /\ Len(cv_out) = 2

\* C16: app_constraints and pkg_constraints return 1 with an error message
\* naming uv, and validate no entry, whenever the manifest has no dependencies
\* key under its project table.
C16_NonUvManifestRejected ==
    (validator \in UvValidators /\ cv_pc # "start" /\ pyproject.kind \in {"poetry", "project"}) =>
        /\ cv_pc = "returned"
        /\ cv_ret = 1
        /\ Len(cv_out) = 1
        /\ cv_out[1].text = "ERROR"
        /\ cv_out[1].dep_name = <<"uv">>
        /\ dep_idx = 0
        /\ cur_dep = NoneValue

\* C16 witness: a manifest with a project table, an invalid requires-python
\* and no dependencies key was rejected by the application validator.
C16_Witness ==
    /\ validator = "app"
    /\ cv_pc = "returned"
    /\ pyproject = [kind |-> "project", requires_python |-> <<">=", "3.10">>]
    /\ cv_ret = 1

\* C17: when the manifest file is missing or unreadable, validate_constraints
\* of every validator ends with the error of load propagated: no exit status
\* is returned and no message is printed.
C17_LoadErrorPropagates ==
    (pyproject \in {MissingManifest, UnreadableManifest} /\ cv_pc # "start") =>
        /\ cv_pc = (IF pyproject = MissingManifest THEN "FileNotFoundError" ELSE "PermissionError")
        /\ cv_ret = NoneValue
        /\ cv_out = <<>>
        /\ dep_idx = 0

\* C17 witness: a Poetry validator ended in FileNotFoundError.
C17_Witness ==
    /\ validator = "poetry_app"
    /\ pyproject = MissingManifest
    /\ cv_pc = "FileNotFoundError"

\* ------------------------------------------------------------------------
\* Claims about no_hardcoded_buckets
\* ------------------------------------------------------------------------
Odd(n) == n % 2 = 1

\* the line holds an odd count of a triple-quote delimiter
OddDelimiterCount(line) ==
    Odd(Count(line, TripleDouble)) \/ Odd(Count(line, TripleSingle))

\* the flag after the first n lines when every line with an odd count toggles
\* it and every other line leaves it alone
RECURSIVE ParityFlag(_, _)
ParityFlag(lines, n) ==
    IF n = 0 THEN FALSE
    ELSE IF OddDelimiterCount(lines[n]) THEN ~ParityFlag(lines, n - 1)
    ELSE ParityFlag(lines, n - 1)

\* C18: in is_comment_or_docstring_line a line with an odd count of a
\* triple-quote delimiter (1, 3, 5, ...) toggles the inside-docstring flag, a
\* line with an even count leaves it unchanged, and the flag persists over the
\* following lines until the next toggling line.
C18_DocstringFlagParity ==
    bk_pc = "scan" => in_docstring = ParityFlag(bk_file.lines, line_num)

\* the flag find_bucket_violations holds when it reaches line n
RECURSIVE FlagBefore(_, _)
FlagBefore(lines, n) ==
    IF n = 1 THEN FALSE
    ELSE is_comment_or_docstring_line(lines[n - 1], FlagBefore(lines, n - 1)).in_docstring

CommentOnly(line) == Strip(line) # <<>> /\ Head(Strip(line)) = "#"

HasDelimiter(line) == Count(line, TripleDouble) + Count(line, TripleSingle) > 0

\* a code line: not a comment, no delimiter, scanned with the flag unset
CodeLine(lines, n) ==
    ~CommentOnly(lines[n]) /\ ~HasDelimiter(lines[n]) /\ ~FlagBefore(lines, n)

\* the violations of a list at a line, a column and a category
FoundAt(vs, l, c, t) ==
    { k \in 1..Len(vs) : vs[k].line = l /\ vs[k].col_offset = c /\ vs[k].violation_type = t }

\* a region match that is not part of a bucket name
RegionOutsideBucket(line, i) == line[i] \in RegionTexts

\* C19: find_bucket_violations reports nothing on a comment-only line, on a
\* line with a triple-quote delimiter or on a line scanned while the
\* inside-docstring flag is set; on a code line without the noqa comment each
\* regex match yields exactly one violation at that line and match offset.
C19_OnlyCodeLinesMatched ==
    (bk_pc = "ast" /\ check_regions) =>
        \A n \in 1..Len(bk_file.lines) :
            LET line == bk_file.lines[n] IN
            IF ~CodeLine(bk_file.lines, n)
            THEN \A k \in 1..Len(violations) : violations[k].line # n
            ELSE ~has_noqa_comment(line) =>
                    \A i \in 1..Len(line) :
                        /\ line[i] \in BucketTexts =>
                              Cardinality(FoundAt(violations, n, TokenStart(i), "bucket")) = 1
                        /\ RegionOutsideBucket(line, i) =>
                              Cardinality(FoundAt(violations, n, TokenStart(i), "region")) = 1

\* C20: a line that carries the comment '# noqa: hardcoded-bucket' is exempt:
\* the result of check_file holds no violation of any category (bucket, region
\* or conditional) on that line.
C20_NoqaLineExempt ==
    bk_pc = "returned" =>
        \A k \in 1..Len(unique_violations) :
            ~has_noqa_comment(bk_file.lines[unique_violations[k].line])

\* ------------------------------------------------------------------------
\* Claims about the list ignore_check works on
\* ------------------------------------------------------------------------
\* C29: ignore_check returns a new list; the list of violation records the
\* caller passed in is unchanged after the call (same records, same length,
\* same order), whether or not a record is suppressed.
C29_CallerListUnchanged ==
    ic_pc = "checked" => check_fails = input_check_fails

\* ------------------------------------------------------------------------
\* Claims about dependencies without a version operator
\* ------------------------------------------------------------------------
\* the list s without its element i
RemoveAt(s, i) == SubSeq(s, 1, i - 1) \o SubSeq(s, i + 1, Len(s))

\* C30: in app_constraints and pkg_constraints a project.dependencies entry
\* without a version operator in the part before ';' is never validated:
\* the status and the messages are those of the manifest without the entry,
\* and a manifest made only of such entries returns what its requires-python
\* alone returns, 0 without a message when requires-python is valid or absent.
C30_OperatorlessEntryNotValidated ==
    (validator \in UvValidators /\ ReturnedFromLoop) =>
        /\ \A i \in 1..Len(pyproject.dependencies) :
              ~CarriesOperator(pyproject.dependencies[i]) =>
                  validate_constraints(validator, ignore,
                      [pyproject EXCEPT !.dependencies = RemoveAt(pyproject.dependencies, i)])
                  = [ret |-> cv_ret, out |-> cv_out]
        /\ (\A i \in 1..Len(pyproject.dependencies) : ~CarriesOperator(pyproject.dependencies[i])) =>
              /\ cv_ret = UvPythonStep(validator, pyproject).exit_status
              /\ cv_out = UvPythonStep(validator, pyproject).out
              /\ (pyproject.requires_python = NoneValue
                  \/ PythonRuleOk(validator, pyproject.requires_python)) =>
                     (cv_ret = 0 /\ cv_out = <<>>)

\* C30 witness: a manifest of a bare name and a name followed only by a
\* marker, with a valid requires-python, was validated and returned 0.
C30_Witness ==
    /\ validator \in UvValidators
    /\ ReturnedFromLoop
    /\ pyproject.requires_python = <<"~=", "3.10">>
    /\ Len(pyproject.dependencies) = 2
    /\ pyproject.dependencies[1] = <<"bare">>
    /\ ~CarriesOperator(pyproject.dependencies[2])
    /\ pyproject.dependencies[2] # <<"bare">>
    /\ cv_ret = 0
    /\ cv_out = <<>>

\* ------------------------------------------------------------------------
\* Claims about environment-conditional bucket logic
\* ------------------------------------------------------------------------
\* the if statements of a statement list, at any depth
RECURSIVE IfStatements(_)
IfStatements(stmts) ==
    IF stmts = <<>> THEN {}
    ELSE (IF Head(stmts).type = "If"
          THEN {Head(stmts)} \cup IfStatements(Head(stmts).body)
                             \cup IfStatements(Head(stmts).orelse)
          ELSE {})
         \cup IfStatements(Tail(stmts))

\* the condition is a call of one of the four environment functions
EnvironmentCall(test) ==
    test.type = "Call" /\ test.func.name \in {"is_production", "is_staging", "is_prodlike", "is_dev"}

\* the lines of the statements directly in a branch that assign or return a
\* string literal matching a bucket pattern
DirectBucketLines(stmts) ==
    { stmts[k].lineno : k \in { j \in 1..Len(stmts) :
                                  /\ stmts[j].type \in {"Assign", "Return"}
                                  /\ stmts[j].value.type = "Constant"
                                  /\ stmts[j].value.value \in BucketTexts } }

ExpectedConditionalLines(f) ==
    IF ~f.parses THEN {}
    ELSE UNION { DirectBucketLines(n.body) \cup DirectBucketLines(n.orelse) :
                 n \in { m \in IfStatements(f.tree) : EnvironmentCall(m.test) } }

ConditionalFound == SelectSeq(violations, LAMBDA v : v.violation_type = "conditional")

\* the file holds no conditional expression
NoTernary(f) == f.tree = <<>> \/ f.tree[1].type = "If"

\* C21: for the if statements of a file, find_conditional_bucket_violations
\* reports one 'conditional' violation for each statement directly in the if
\* body or the else body of an if on an environment call that assigns or
\* returns a bucket literal, and none for an if on another condition or for
\* a source that does not parse.
C21_ConditionalPerBranchStatement ==
    (bk_pc = "dedup" /\ NoTernary(bk_file)) =>
        /\ Len(ConditionalFound) = Cardinality(ExpectedConditionalLines(bk_file))
        /\ { ConditionalFound[i].line : i \in 1..Len(ConditionalFound) }
             = ExpectedConditionalLines(bk_file)

\* C21 witness: an if on an environment call whose if branch and else branch
\* each return a bucket literal gave two conditional violations.
C21_Witness ==
    /\ bk_pc = "dedup"
    /\ bk_file.parses
    /\ bk_file.tree[1].type = "If"
    /\ EnvironmentCall(bk_file.tree[1].test)
    /\ bk_file.tree[1].body[1].type = "Return"
    /\ bk_file.tree[1].orelse # <<>>
    /\ bk_file.tree[1].orelse[1].type = "Return"
    /\ Len(ConditionalFound) = 2
    /\ ConditionalFound[1].line = 2
    /\ ConditionalFound[2].line = 4

\* ------------------------------------------------------------------------
\* Claims about the deduplication of check_file
\* ------------------------------------------------------------------------
SameLocationAndCategory(a, b) ==
    /\ a.filename = b.filename
    /\ a.line = b.line
    /\ a.col_offset = b.col_offset
    /\ a.violation_type = b.violation_type

\* the positions of the findings that no earlier finding shares its key with
FirstFindings ==
    { i \in 1..Len(violations) :
        \A j \in 1..(i - 1) : ~SameLocationAndCategory(violations[j], violations[i]) }

\* C22: the list check_file returns never holds two violations with the same
\* (filename, line, column, category); it is the list of findings with every
\* finding dropped whose key an earlier finding has, in discovery order, the
\* regex findings before the AST findings.
C22_DeduplicatedByKey ==
    (bk_pc = "returned" /\ bk_file.readable) =>
        /\ \A a, b \in 1..Len(unique_violations) :
              a # b => ~SameLocationAndCategory(unique_violations[a], unique_violations[b])
        /\ Len(unique_violations) = Cardinality(FirstFindings)
        /\ \A i \in FirstFindings :
              unique_violations[Cardinality({ j \in FirstFindings : j <= i })] = violations[i]
        /\ \A a, b \in 1..Len(unique_violations) :
              (a < b /\ unique_violations[a].violation_type = "conditional")
                  => unique_violations[b].violation_type = "conditional"

\* C22 witness: two findings with one key were found, the second was dropped,
\* and a finding of another category at the same place was kept before them.
C22_Witness ==
    /\ bk_pc = "returned"
    /\ Len(violations) > Len(unique_violations)
    /\ \E a, b \in 1..Len(unique_violations) :
          /\ a < b
          /\ unique_violations[a].line = unique_violations[b].line
          /\ unique_violations[a].col_offset = unique_violations[b].col_offset
          /\ unique_violations[a].violation_type = "bucket"
          /\ unique_violations[b].violation_type = "conditional"

\* ------------------------------------------------------------------------
\* Claims about no_hardcoded_buckets.main
\* ------------------------------------------------------------------------
\* some given file has a finding under the options of the command line
SomeFileHasFinding ==
    \E k \in 1..Len(argv.files) :
        buckets_check_file(MainFileNames[k], argv.files[k],
                           "--no-regions" \notin argv.flags).violations # <<>>

\* every finding of every given file, in the order of the files
RECURSIVE FindingsUpTo(_)
FindingsUpTo(k) ==
    IF k = 0 THEN <<>>
    ELSE FindingsUpTo(k - 1)
         \o buckets_check_file(MainFileNames[k], argv.files[k],
                               "--no-regions" \notin argv.flags).violations

PrintedViolations == SelectSeq(bm_stderr, LAMBDA l : "message" \in DOMAIN l)

\* C23: main returns 1 when a violation is found in the given files and
\* warn-only mode is off, 0 when no violation is found or no file is given,
\* and in warn-only mode always 0, the findings being printed all the same.
C23_MainExitStatus ==
    bm_pc = "returned" =>
        /\ bm_ret = (IF SomeFileHasFinding /\ "--warn-only" \notin argv.flags THEN 1 ELSE 0)
        /\ Len(PrintedViolations) = Len(FindingsUpTo(Len(argv.files)))
        /\ \A k \in 1..Len(PrintedViolations) :
              /\ PrintedViolations[k].filename = FindingsUpTo(Len(argv.files))[k].filename
              /\ PrintedViolations[k].line = FindingsUpTo(Len(argv.files))[k].line
              /\ PrintedViolations[k].message = FindingsUpTo(Len(argv.files))[k].message

\* C23 witness: in warn-only mode a violation was found and printed and main
\* returned 0.
C23_Witness ==
    /\ bm_pc = "returned"
    /\ "--warn-only" \in argv.flags
    /\ SomeFileHasFinding
    /\ PrintedViolations # <<>>
    /\ bm_ret = 0

\* C24: main does not report region strings by default and reports them only
\* with --check-regions: for a file whose only finding is a region literal it
\* returns 0 without a flag and 1 with --check-regions.
C24_RegionsOnlyOnRequest ==
    (bm_pc \in {"returned", "exited"} /\ argv.files = <<RegionOnlyFile>>) =>
        /\ argv.flags = {} => (bm_pc = "returned" /\ bm_ret = 0)
        /\ argv.flags = {"--check-regions"} => (bm_pc = "returned" /\ bm_ret = 1)

\* ------------------------------------------------------------------------
\* Claims about no_boto3_in_airflow_dags
\* ------------------------------------------------------------------------
\* the import statements of a statement list, at any depth
RECURSIVE ImportStatements(_)
ImportStatements(stmts) ==
    IF stmts = <<>> THEN {}
    ELSE (CASE Head(stmts).type \in {"Import", "ImportFrom"} -> {Head(stmts)}
            [] Head(stmts).type = "FunctionDef" -> ImportStatements(Head(stmts).body)
            [] OTHER -> {})
         \cup ImportStatements(Tail(stmts))

\* the modules an import statement imports
ImportedModules(st) ==
    IF st.type = "Import" THEN { st.names[k] : k \in 1..Len(st.names) }
    ELSE IF st.module = NoneValue THEN {} ELSE {st.module}

\* boto3 itself or a module below it
Boto3OrBelow(m) == m[1] = "boto3"

\* the lines where check_file has to report
ExpectedBoto3Lines(f) ==
    IF ~f.readable \/ ~f.parses THEN {}
    ELSE { st.lineno : st \in { s \in ImportStatements(f.tree) :
                                  /\ \E m \in ImportedModules(s) : Boto3OrBelow(m)
                                  /\ \A j \in 1..Len(f.lines[s.lineno]) :
                                        f.lines[s.lineno][j] # "tatari-noqa" } }

ReportedLines(vs) == { vs[i].line : i \in 1..Len(vs) }

\* C25: check_file returns a violation at line L exactly when the file is
\* read and parsed, an import statement at L, at any depth, imports boto3 or
\* a module below it, and line L has no 'tatari-noqa'; a file that cannot be
\* read or parsed gives none; main returns 1 exactly when a given '.py' file
\* has a violation.
C25_Boto3ImportsReported ==
    /\ \A k \in 1..Len(b3_filenames) :
          ReportedLines(boto3_check_file(b3_filenames[k].name, b3_filenames[k].file))
            = ExpectedBoto3Lines(b3_filenames[k].file)
    /\ b3_pc = "returned" =>
          /\ b3_ret = (IF \E k \in 1..Len(b3_filenames) :
                             /\ b3_filenames[k].ext = ".py"
                             /\ ExpectedBoto3Lines(b3_filenames[k].file) # {}
                       THEN 1 ELSE 0)
          /\ \A k \in 1..Len(b3_filenames) :
                { b3_all_violations[i].line :
                     i \in { j \in 1..Len(b3_all_violations) :
                               b3_all_violations[j].filename = b3_filenames[k].name } }
                = (IF b3_filenames[k].ext = ".py"
                   THEN ExpectedBoto3Lines(b3_filenames[k].file) ELSE {})

\* C25 witness: an import of boto3 in the body of a def was reported while an
\* import of boto3 on a line with the marker was not, and main returned 1.
C25_Witness ==
    /\ b3_pc = "returned"
    /\ b3_ret = 1
    /\ Len(b3_filenames) = 1
    /\ b3_filenames[1].file.parses
    /\ Len(b3_filenames[1].file.tree) = 2
    /\ b3_filenames[1].file.tree[1].type = "FunctionDef"
    /\ b3_filenames[1].file.tree[2].type = "ImportFrom"
    /\ b3_filenames[1].file.tree[2].module = <<"boto3", "session">>
    /\ ReportedLines(b3_all_violations) = {2}

\* ------------------------------------------------------------------------
\* Claims about no_non_spark_buckets_in_spark_projects
\* ------------------------------------------------------------------------
\* the pyproject.toml of the nearest directory that has one
NearestManifest(dirs) ==
    IF \A k \in 1..Len(dirs) : dirs[k].kind = "none" THEN NoManifest
    ELSE dirs[CHOOSE k \in 1..Len(dirs) :
                 dirs[k].kind # "none" /\ \A j \in 1..(k - 1) : dirs[j].kind = "none"]

\* the manifest declares one of the five Spark dependencies
DeclaresSparkDependency(m) ==
    /\ m.kind \in {"poetry", "uv"}
    /\ \E k \in 1..Len(m.dependencies) :
          m.dependencies[k] \in {"python-tatari-pyspark", "python-tatari-ml-utils",
                                 "tatari-pyspark", "tatari-ml-utils", "pyspark"}

\* the lines check_file has to report in a Spark project
NonSparkImportLines(f) ==
    { n \in 1..Len(f.lines) :
        /\ NonSparkPatternSearch(1, f.lines[n]) \/ NonSparkPatternSearch(2, f.lines[n])
        /\ ~NonSparkNoqaSearch(f.lines[n])
        /\ ~SparkImportSearch(f.lines[n]) }

\* C26: check_file returns exactly one violation for each line that matches
\* a non-Spark import pattern and has neither the noqa comment nor the text
\* buckets_spark, provided the nearest pyproject.toml above the file declares
\* a Spark dependency; it returns none when no pyproject.toml is found, when
\* none of the five dependencies is declared or when the file cannot be read.
C26_OneViolationPerImportLine ==
    ns_pc = "returned" =>
        IF /\ NearestManifest(ns_dirs).kind # "none"
           /\ DeclaresSparkDependency(NearestManifest(ns_dirs))
           /\ ns_file.readable
        THEN /\ Len(ns_ret) = Cardinality(NonSparkImportLines(ns_file))
             /\ { ns_ret[i].line : i \in 1..Len(ns_ret) } = NonSparkImportLines(ns_file)
        ELSE ns_ret = <<>>

\* ------------------------------------------------------------------------
\* Claims about validate_branch_name
\* ------------------------------------------------------------------------
\* a letter a-z or A-Z, a digit, or one of . _ / -
AllowedCharacter(c) == c \in {"a", "Z", "7"} \/ c \in {".", "_", "/", "-"}

\* C27: validate_branch_name returns 0 exactly when the name has between 1
\* and 50 characters, each a letter, a digit or one of . _ / -, and does not
\* start with a hyphen or a period; for every other name it prints the error
\* message and returns 1.
C27_BranchNameAccepted ==
    br_pc = "returned" =>
        IF /\ Len(branch) >= 1
           /\ Len(branch) <= 50
           /\ \A i \in 1..Len(branch) : AllowedCharacter(branch[i])
           /\ branch[1] \notin {"-", "."}
        THEN br_ret = 0 /\ br_printed = <<>>
        ELSE br_ret = 1 /\ br_printed = <<ERROR_MESSAGE>>

\* ------------------------------------------------------------------------
\* Claims about forbidden_imports
\* ------------------------------------------------------------------------
\* an import statement of the file imports a name of the forbidden list
ImportsForbiddenName(f, forbidden) ==
    \E st \in ImportStatements(f.body) :
        \E k \in 1..Len(st.names) :
            \E j \in 1..Len(forbidden) : st.names[k].name = forbidden[j]

\* C28: check_imports returns 1 if the file contains an import or
\* from-import statement that imports a name of the forbidden list, matched
\* on the imported name also when it has an alias, and 0 if the file imports
\* no forbidden name.
C28_ForbiddenImportFlagged ==
    fi_pc = "returned" =>
        fi_ret = (IF ImportsForbiddenName(fi_file, forbidden_classes) THEN 1 ELSE 0)

====
